---- MODULE Spec2Model ----
(***************************************************************************)
(* A model of the graph cluster of uhometitanic/data-structures:           *)
(*   heap_queue.py      HeapQueue   (indexed binary min-heap)              *)
(*   partition.py       Partition   (union-find forest)                    *)
(*   weighted_graph.py  DirectedGraph, EdgeMapGraph, Dijkstra, Kruskal     *)
(* Every structure is modelled by pure operators on its fields; the        *)
(* specifications SpecHeap, SpecPartition, SpecGraph, SpecDijkstra and     *)
(* SpecKruskal drive those operators from bounded inputs.                  *)
(***************************************************************************)
EXTENDS Integers, Sequences, FiniteSets, TLC

(***************************************************************************)
(* Bounds of the model.                                                    *)
(***************************************************************************)
\* HeapQueue items are 1..MaxItem, keys are 0..MaxKey.
MaxItem == 4
MaxKey == 2

\* Partition items are 1..MaxPItem; add_group takes lists of at most MaxGroupLen.
MaxPItem == 4
MaxGroupLen == 3
\* Graph mutation: node labels 1..MaxLabel, weights 1..MaxWeight, and add_edge
\* is not called for a new edge once the graph holds MaxEdges edges.
MaxLabel == 3
MaxWeight == 2
MaxEdges == 3

\* Dijkstra inputs: graphs over the nodes 0..DjMaxNode with at most DjMaxEdges
\* edges of weight 0..DjMaxWeight (and the example graph of the tests).
DjMaxNode == 2
DjMaxWeight == 2
DjMaxEdges == 3

\* Kruskal inputs: graphs over the nodes 1..KrMaxNode with at most KrMaxEdges
\* edges of weight 1..KrMaxWeight.
KrMaxNode == 4
KrMaxWeight == 2
KrMaxEdges == 4

\* Python's None (returned by _smaller_child, stored in came_from).
None == -1
\* float('inf'): larger than every finite path cost of the model; KeyAdd keeps
\* INF + weight = INF.
INF == 1000

Items == 1..MaxItem
Keys == 0..MaxKey
PItems == 1..MaxPItem
Labels == 1..MaxLabel
Weights == 1..MaxWeight

VARIABLES
    entries,    \* HeapQueue._entries : sequence of <<item, key>>, index i at i+1
    indices,    \* HeapQueue._indices : item -> 0-based index
    hret,       \* the last HeapQueue call and what it returned
    parents,    \* Partition._parents : item -> parent item
    weights,    \* Partition._weights : item -> subtree size
    pfirst,     \* the first key of Partition._parents (next(iter(self))), or None
    pret,       \* the last Partition call and what it returned
    adjacency,  \* DirectedGraph._adjacency : node -> (out-neighbour -> weight)
    gnodes,     \* EdgeMapGraph._nodes
    gedges,     \* EdgeMapGraph._edges : {start, end} -> weight
    gret,       \* the last graph call (made on both variants) and its outcomes
    dpc,        \* single_source_shortest_paths: where the call stands
    dj_start,   \* its argument start
    dj_req,     \* its argument targets (the requested targets)
    dj_targets, \* _dijkstra's local set targets: the targets not yet popped
    came_from,  \* _dijkstra's local came_from
    cur,        \* _dijkstra's locals <<cur_node, cur_cost>>
    pending,    \* the neighbours of cur_node the for loop has yet to visit
    paths,      \* the mapping the call returns
    kpc,        \* min_span_tree: where the evaluation stands
    sorted_edges, \* its local sorted_edges, each edge <<pair, weight>>
    kpos,       \* the position of the for loop in sorted_edges
    mst         \* its local result

heapVars == <<entries, indices, hret>>
partVars == <<parents, weights, pfirst, pret>>
graphVars == <<adjacency, gnodes, gedges, gret>>
djVars == <<dpc, dj_start, dj_req, dj_targets, came_from, cur, pending, paths>>

krVars == <<kpc, sorted_edges, kpos, mst>>

vars == <<heapVars, partVars, graphVars, djVars, krVars>>

(***************************************************************************)
(* Generic helpers.                                                        *)
(***************************************************************************)
Range(f) == {f[x] : x \in DOMAIN f}

\* Sequences without repetition over S, of length at most n.
InjSeqs(S, n) ==
    UNION {{s \in [1..k -> S] : \A i, j \in 1..k : s[i] = s[j] => i = j} : k \in 0..n}

Min(S) == CHOOSE x \in S : \A y \in S : x <= y

(***************************************************************************)
(* HeapQueue (heap_queue.py).  A heap value is [entries, indices].         *)
(***************************************************************************)
HLen(h) == Len(h.entries)

ItemAt(h, idx) == h.entries[idx + 1][1]
KeyAt(h, idx) == h.entries[idx + 1][2]

Contains(h, item) == item \in DOMAIN h.indices

GetItem(h, item) == KeyAt(h, h.indices[item])

\* a faulty _swap: the entries are exchanged, _indices is left as it was
SwapKeepIndices(h, idx1, idx2) ==
    [entries |-> [h.entries EXCEPT ![idx1 + 1] = h.entries[idx2 + 1],
                                   ![idx2 + 1] = h.entries[idx1 + 1]],
     indices |-> h.indices]

Swap(h, idx1, idx2) ==
    LET item1 == ItemAt(h, idx1)
        item2 == ItemAt(h, idx2)
        ind1 == [h.indices EXCEPT ![item1] = idx2]
        ind2 == [ind1 EXCEPT ![item2] = idx1]
    IN  [entries |-> [h.entries EXCEPT ![idx1 + 1] = h.entries[idx2 + 1],
                                       ![idx2 + 1] = h.entries[idx1 + 1]],
         indices |-> ind2]

RECURSIVE Up(_, _)
Up(h, idx) ==
    IF idx = 0 THEN h
    ELSE LET parent == (idx - 1) \div 2
         IN  IF KeyAt(h, idx) < KeyAt(h, parent)
             THEN Up(Swap(h, idx, parent), parent)
             ELSE h

\* a faulty _smaller_child: the left child is taken without comparing the keys
SmallerChildLeft(h, idx) ==
    LET left == 2 * idx + 1
    IN  IF left >= HLen(h) THEN None ELSE left

SmallerChild(h, idx) ==
    LET left == 2 * idx + 1
        right == left + 1
    IN  IF left >= HLen(h) THEN None
        ELSE IF right = HLen(h) THEN left
        ELSE IF KeyAt(h, left) < KeyAt(h, right) THEN left
        ELSE right

RECURSIVE Down(_, _)
Down(h, idx) ==
    LET child == SmallerChild(h, idx)
    IN  IF child = None THEN h
        ELSE IF KeyAt(h, idx) > KeyAt(h, child)
             THEN Down(Swap(h, idx, child), child)
             ELSE h

RECURSIVE HeapifyFrom(_, _)
HeapifyFrom(h, idx) ==
    IF idx < 0 THEN h ELSE HeapifyFrom(Down(h, idx), idx - 1)

\* a faulty _heapify: range(start, 0, -1) leaves the root out
RECURSIVE HeapifyDownTo(_, _, _)
HeapifyDownTo(h, idx, last) ==
    IF idx < last THEN h ELSE HeapifyDownTo(Down(h, idx), idx - 1, last)

HeapifySkipRoot(h) == HeapifyDownTo(h, (HLen(h) \div 2) - 1, 1)

Heapify(h) == HeapifyFrom(h, (HLen(h) \div 2) - 1)

\* HeapQueue() and HeapQueue(entries)
EmptyHeap == [entries |-> <<>>, indices |-> <<>>]

NewHeap(es) ==
    Heapify([entries |-> es,
             indices |-> [item \in {es[i][1] : i \in 1..Len(es)} |->
                            (CHOOSE i \in 1..Len(es) :
                                /\ es[i][1] = item
                                /\ \A j \in 1..Len(es) : es[j][1] = item => j <= i) - 1]])


\* a faulty push: an item that is in the queue already keeps its old key
PushKeepKey(h, item, key) ==
    IF ~Contains(h, item)
    THEN LET idx == HLen(h)
         IN  Up([entries |-> Append(h.entries, <<item, key>>),
                 indices |-> h.indices @@ (item :> idx)], idx)
    ELSE h

Push(h, item, key) ==
    IF ~Contains(h, item)
    THEN LET idx == HLen(h)
             h1 == [entries |-> Append(h.entries, <<item, key>>),
                    indices |-> h.indices @@ (item :> idx)]
         IN  Up(h1, idx)
    ELSE LET idx == h.indices[item]
             old_key == KeyAt(h, idx)
             h1 == [h EXCEPT !.entries[idx + 1] = <<ItemAt(h, idx), key>>]
             h2 == IF key < old_key THEN Up(h1, idx) ELSE h1
             \* after a sift-up the second test still reads idx, as the code does
         IN  IF key > old_key THEN Down(h2, idx) ELSE h2

\* a faulty pop: the root is returned and left in the queue (a peek)
PopPeek(h) == [heap |-> h, item |-> h.entries[1][1], key |-> h.entries[1][2]]

\* a faulty pop: the last entry is taken off without the swap and the sift-down
PopNoSift(h) ==
    LET h1 == Swap(h, 0, HLen(h) - 1)
        last == h1.entries[HLen(h1)]
    IN  [heap |-> [entries |-> SubSeq(h1.entries, 1, HLen(h1) - 1),
                   indices |-> [x \in DOMAIN h1.indices \ {last[1]} |-> h1.indices[x]]],
         item |-> last[1], key |-> last[2]]

\* pop on a non-empty queue: the queue afterwards and the returned pair
Pop(h) ==
    LET h1 == Swap(h, 0, HLen(h) - 1)
        last == h1.entries[HLen(h1)]
        h2 == [entries |-> SubSeq(h1.entries, 1, HLen(h1) - 1),
               indices |-> [x \in DOMAIN h1.indices \ {last[1]} |-> h1.indices[x]]]
    IN  [heap |-> Down(h2, 0), item |-> last[1], key |-> last[2]]

Peek(h) == ItemAt(h, 0)


\* a faulty pop: on an empty queue None is handed back and nothing is raised
TryPopSilent(h) ==
    IF HLen(h) = 0 THEN [ok |-> TRUE, heap |-> h, item |-> None, key |-> None]
    ELSE [ok |-> TRUE, heap |-> Pop(h).heap, item |-> Pop(h).item, key |-> Pop(h).key]

\* pop on any queue: on an empty one _swap(0, -1) reads _entries[0] first and
\* raises IndexError (ok FALSE) before anything is assigned
TryPop(h) ==
    IF HLen(h) = 0 THEN [ok |-> FALSE, heap |-> h, item |-> None, key |-> None]
    ELSE [ok |-> TRUE, heap |-> Pop(h).heap, item |-> Pop(h).item, key |-> Pop(h).key]

\* peek on any queue: on an empty one _entries[0] raises IndexError
TryPeek(h) ==
    IF HLen(h) = 0 THEN [ok |-> FALSE, item |-> None]
    ELSE [ok |-> TRUE, item |-> Peek(h)]

Heap == [entries |-> entries, indices |-> indices]

(***************************************************************************)
(* Partition (partition.py).  A partition value is [parents, weights].     *)
(***************************************************************************)
\* Partition(items)
NewPartition(items) ==
    [parents |-> [item \in items |-> item], weights |-> [item \in items |-> 1]]

PContains(p, item) == item \in DOMAIN p.parents

PLen(p) == Cardinality(DOMAIN p.parents)

Put(f, k, v) == (k :> v) @@ f

AddItem(p, item) ==
    IF ~PContains(p, item)
    THEN [parents |-> Put(p.parents, item, item), weights |-> Put(p.weights, item, 1)]
    ELSE p

RECURSIVE AddGroupRest(_, _, _)
AddGroupRest(p, items, i) ==
    IF i > Len(items) THEN p
    ELSE AddGroupRest([parents |-> Put(p.parents, items[i], items[1]),
                       weights |-> Put(p.weights, items[i], 1)], items, i + 1)

\* a faulty add_group: items are inserted while they are validated, so the
\* items in front of the first existing one are in the partition at the failure
AddGroupEager(p, items) ==
    LET bad == {i \in 1..Len(items) : PContains(p, items[i])}
        first == Min(bad)
        whole(its) == AddGroupRest([parents |-> Put(p.parents, its[1], its[1]),
                                    weights |-> Put(p.weights, its[1], Len(items))],
                                   its, 2)
    IN  IF bad # {}
        THEN [ok |-> FALSE, err |-> "ValueError",
              p |-> IF first = 1 THEN p ELSE whole(SubSeq(items, 1, first - 1))]
        ELSE IF Len(items) = 0 THEN [ok |-> FALSE, err |-> "IndexError", p |-> p]
        ELSE [ok |-> TRUE, err |-> None, p |-> whole(items)]

\* add_group: [ok, err, p]; the ValueError (an item exists) is raised before
\* anything is inserted, and so is the IndexError of an empty list (items[0])
AddGroup(p, items) ==
    IF \E i \in 1..Len(items) : PContains(p, items[i])
    THEN [ok |-> FALSE, err |-> "ValueError", p |-> p]
    ELSE IF Len(items) = 0 THEN [ok |-> FALSE, err |-> "IndexError", p |-> p]
    ELSE [ok |-> TRUE, err |-> None,
          p |-> AddGroupRest([parents |-> Put(p.parents, items[1], items[1]),
                              weights |-> Put(p.weights, items[1], Len(items))],
                             items, 2)]

\* a faulty find: the root is returned, the path is not compressed
RECURSIVE FindNoCompress(_, _)
FindNoCompress(p, item) ==
    IF p.parents[item] = item THEN [root |-> item, p |-> p]
    ELSE FindNoCompress(p, p.parents[item])

\* a faulty find: the direct parent is returned, not the root
FindParent(p, item) == [root |-> p.parents[item], p |-> p]

\* find: the root returned and the partition after path compression
RECURSIVE Find(_, _)
Find(p, item) ==
    IF p.parents[item] = item THEN [root |-> item, p |-> p]
    ELSE LET r == Find(p, p.parents[item])
         IN  [root |-> r.root, p |-> [r.p EXCEPT !.parents[item] = r.root]]

\* a faulty union: the second item itself, not its root, is put under the
\* root of the first
UnionLinkItem(p, item1, item2) ==
    LET f1 == Find(p, item1)
        f2 == Find(f1.p, item2)
        q == f2.p
    IN  IF f1.root # f2.root
        THEN [parents |-> [q.parents EXCEPT ![item2] = f1.root],
              weights |-> [q.weights EXCEPT ![f1.root] = @ + q.weights[f2.root]]]
        ELSE q

\* a faulty union: the roots are swapped on equal sizes as well
UnionSwapOnTie(p, item1, item2) ==
    LET f1 == Find(p, item1)
        f2 == Find(f1.p, item2)
        q == f2.p
    IN  IF f1.root # f2.root
        THEN LET swap == q.weights[f1.root] <= q.weights[f2.root]
                 root1 == IF swap THEN f2.root ELSE f1.root
                 root2 == IF swap THEN f1.root ELSE f2.root
             IN  [parents |-> [q.parents EXCEPT ![root2] = root1],
                  weights |-> [q.weights EXCEPT ![root1] = @ + q.weights[root2]]]
        ELSE q

\* a faulty union: when the roots are swapped the old link is made as well, so
\* the two roots become each other's parent
UnionLinkBothWays(p, item1, item2) ==
    LET f1 == Find(p, item1)
        f2 == Find(f1.p, item2)
        q == f2.p
    IN  IF f1.root # f2.root
        THEN LET swap == q.weights[f1.root] < q.weights[f2.root]
                 root1 == IF swap THEN f2.root ELSE f1.root
                 root2 == IF swap THEN f1.root ELSE f2.root
             IN  [parents |-> IF swap
                              THEN [q.parents EXCEPT ![root2] = root1, ![root1] = root2]
                              ELSE [q.parents EXCEPT ![root2] = root1],
                  weights |-> [q.weights EXCEPT ![root1] = @ + q.weights[root2]]]
        ELSE q

\* a faulty union: the absorbed root's size is not added to the survivor's
UnionKeepWeight(p, item1, item2) ==
    LET f1 == Find(p, item1)
        f2 == Find(f1.p, item2)
        q == f2.p
    IN  IF f1.root # f2.root
        THEN LET swap == q.weights[f1.root] < q.weights[f2.root]
                 root1 == IF swap THEN f2.root ELSE f1.root
                 root2 == IF swap THEN f1.root ELSE f2.root
             IN  [parents |-> [q.parents EXCEPT ![root2] = root1], weights |-> q.weights]
        ELSE q

\* a faulty union: no swap, the root of item2 always goes under the root of item1
UnionNoSwap(p, item1, item2) ==
    LET f1 == Find(p, item1)
        f2 == Find(f1.p, item2)
        q == f2.p
    IN  IF f1.root # f2.root
        THEN [parents |-> [q.parents EXCEPT ![f2.root] = f1.root],
              weights |-> [q.weights EXCEPT ![f1.root] = @ + q.weights[f2.root]]]
        ELSE q

Union(p, item1, item2) ==
    LET f1 == Find(p, item1)
        f2 == Find(f1.p, item2)
        q == f2.p
    IN  IF f1.root # f2.root
        THEN LET swap == q.weights[f1.root] < q.weights[f2.root]
                 root1 == IF swap THEN f2.root ELSE f1.root
                 root2 == IF swap THEN f1.root ELSE f2.root
             IN  [parents |-> [q.parents EXCEPT ![root2] = root1],
                  weights |-> [q.weights EXCEPT ![root1] = @ + q.weights[root2]]]
        ELSE q

\* is_single_group read from item (the first key of _parents): [value, p]
IsSingleGroup(p, item) ==
    LET f == Find(p, item)
    IN  [value |-> (f.p.weights[f.root] = PLen(f.p)), p |-> f.p]

Part == [parents |-> parents, weights |-> weights]

(***************************************************************************)
(* DirectedGraph (weighted_graph.py).  A value is the adjacency map.       *)
(***************************************************************************)
SetDefault(A, label) == IF label \in DOMAIN A THEN A ELSE Put(A, label, <<>>)


\* a faulty add_node: the neighbour dict is assigned, not set by default
DAddNodeReset(A, label) == Put(A, label, <<>>)

DAddNode(A, label) == SetDefault(A, label)

\* a faulty add_edge: an existing edge keeps its old weight
DAddEdgeKeepOld(A, start, end, weight) ==
    LET A2 == SetDefault(SetDefault(A, end), start)
    IN  [A2 EXCEPT ![start] = A2[start] @@ (end :> weight)]

DAddEdge(A, start, end, weight) ==
    LET A2 == SetDefault(SetDefault(A, end), start)
    IN  [A2 EXCEPT ![start] = Put(A2[start], end, weight)]

\* a faulty remove_node: the edges into the node are left in place
DRemoveNodeKeepIncoming(A, label) ==
    IF label \notin DOMAIN A THEN [ok |-> FALSE, g |-> A]
    ELSE [ok |-> TRUE, g |-> [n \in DOMAIN A \ {label} |-> A[n]]]

\* remove_node, remove_edge: [ok, g]; ok is FALSE when ValueError is raised
DRemoveNode(A, label) ==
    IF label \notin DOMAIN A THEN [ok |-> FALSE, g |-> A]
    ELSE [ok |-> TRUE,
          g |-> [n \in DOMAIN A \ {label} |->
                    [m \in DOMAIN A[n] \ {label} |-> A[n][m]]]]

\* a faulty remove_edge: the reverse edge is accepted and removed as well
DRemoveEdgeAnyDirection(A, start, end) ==
    IF start \in DOMAIN A /\ end \in DOMAIN A[start]
    THEN [ok |-> TRUE,
          g |-> [A EXCEPT ![start] = [m \in DOMAIN A[start] \ {end} |-> A[start][m]]]]
    ELSE IF end \in DOMAIN A /\ start \in DOMAIN A[end]
    THEN [ok |-> TRUE,
          g |-> [A EXCEPT ![end] = [m \in DOMAIN A[end] \ {start} |-> A[end][m]]]]
    ELSE [ok |-> FALSE, g |-> A]


\* a faulty remove_edge: the reverse edge is removed along with the edge
DRemoveEdgeBothDirections(A, start, end) ==
    IF start \in DOMAIN A /\ end \in DOMAIN A[start]
    THEN [ok |-> TRUE,
          g |-> [n \in DOMAIN A |->
                    [m \in {x \in DOMAIN A[n] : {n, x} # {start, end}} |-> A[n][m]]]]
    ELSE [ok |-> FALSE, g |-> A]

DRemoveEdge(A, start, end) ==
    IF start \in DOMAIN A /\ end \in DOMAIN A[start]
    THEN [ok |-> TRUE,
          g |-> [A EXCEPT ![start] = [m \in DOMAIN A[start] \ {end} |-> A[start][m]]]]
    ELSE [ok |-> FALSE, g |-> A]

DNodes(A) == DOMAIN A

\* edges as <<start, end, weight>>
DEdges(A) == UNION {{<<s, e, A[s][e]>> : e \in DOMAIN A[s]} : s \in DOMAIN A}

DNodeCount(A) == Cardinality(DOMAIN A)

RECURSIVE SumOver(_, _)
SumOver(S, f) ==
    IF S = {} THEN 0
    ELSE LET x == CHOOSE y \in S : TRUE IN f[x] + SumOver(S \ {x}, f)

DEdgeCount(A) == SumOver(DOMAIN A, [n \in DOMAIN A |-> Cardinality(DOMAIN A[n])])

\* neighbors, degree, weight: [ok, value]
DNeighbors(A, label) ==
    IF label \notin DOMAIN A THEN [ok |-> FALSE, value |-> {}]
    ELSE [ok |-> TRUE, value |-> {<<m, A[label][m]>> : m \in DOMAIN A[label]}]


\* a faulty degree: the edges ending at the node are counted as well
DDegreeInAndOut(A, label) ==
    IF label \notin DOMAIN A THEN [ok |-> FALSE, value |-> None]
    ELSE [ok |-> TRUE,
          value |-> Cardinality(DOMAIN A[label])
                    + Cardinality({n \in DOMAIN A : label \in DOMAIN A[n]})]

DDegree(A, label) ==
    IF label \notin DOMAIN A THEN [ok |-> FALSE, value |-> None]
    ELSE [ok |-> TRUE, value |-> Cardinality(DOMAIN A[label])]

DWeight(A, start, end) ==
    IF start \in DOMAIN A /\ end \in DOMAIN A[start]
    THEN [ok |-> TRUE, value |-> A[start][end]]
    ELSE [ok |-> FALSE, value |-> None]

(***************************************************************************)
(* EdgeMapGraph (weighted_graph.py).  A value is [nodes, edges]; the key   *)
(* frozenset({start, end}) is the set {start, end}.                        *)
(***************************************************************************)
EmptyEdgeMapGraph == [nodes |-> {}, edges |-> <<>>]

EAddNode(G, label) == [G EXCEPT !.nodes = @ \cup {label}]

\* a faulty add_edge: the edge is stored, its endpoints are not added as nodes
EAddEdgeNoNodes(G, start, end, weight) ==
    [nodes |-> G.nodes, edges |-> Put(G.edges, {start, end}, weight)]

EAddEdge(G, start, end, weight) ==
    [nodes |-> G.nodes \cup {start, end},
     edges |-> Put(G.edges, {start, end}, weight)]

\* a faulty remove_node: the edges at the node are left in place
ERemoveNodeKeepEdges(G, label) ==
    IF label \notin G.nodes THEN [ok |-> FALSE, g |-> G]
    ELSE [ok |-> TRUE, g |-> [G EXCEPT !.nodes = @ \ {label}]]

ERemoveNode(G, label) ==
    IF label \notin G.nodes THEN [ok |-> FALSE, g |-> G]
    ELSE [ok |-> TRUE,
          g |-> [nodes |-> G.nodes \ {label},
                 edges |-> [pair \in {q \in DOMAIN G.edges : label \notin q} |->
                               G.edges[pair]]]]


\* a faulty remove_edge: the pair is found only with the smaller label first
ERemoveEdgeOrdered(G, start, end) ==
    LET pair == {start, end}
    IN  IF pair \notin DOMAIN G.edges \/ start > end THEN [ok |-> FALSE, g |-> G]
        ELSE [ok |-> TRUE,
              g |-> [G EXCEPT !.edges = [q \in DOMAIN G.edges \ {pair} |-> G.edges[q]]]]

ERemoveEdge(G, start, end) ==
    LET pair == {start, end}
    IN  IF pair \notin DOMAIN G.edges THEN [ok |-> FALSE, g |-> G]
        ELSE [ok |-> TRUE,
              g |-> [G EXCEPT !.edges = [q \in DOMAIN G.edges \ {pair} |-> G.edges[q]]]]

ENodes(G) == G.nodes

\* edges as <<pair, weight>>
EEdges(G) == {<<pair, G.edges[pair]>> : pair \in DOMAIN G.edges}

ENodeCount(G) == Cardinality(G.nodes)

EEdgeCount(G) == Cardinality(DOMAIN G.edges)

EWeight(G, start, end) ==
    IF {start, end} \notin DOMAIN G.edges THEN [ok |-> FALSE, value |-> None]
    ELSE [ok |-> TRUE, value |-> G.edges[{start, end}]]


\* start, end = pair: the two orders a two-element frozenset can iterate in;
\* a one-element pair (a self-loop) cannot be unpacked
Unpackings(pair) == {se \in pair \X pair : se[1] # se[2]}

\* _gen_nbrs consumed to its end with self._edges iterating in the given order:
\* the outcomes [ok, value], value the pairs yielded, ok FALSE when the
\* unpacking (start, end) of a one-element pair raised ValueError
RECURSIVE GenNbrsFrom(_, _, _, _)
GenNbrsFrom(G, label, order, i) ==
    IF i > Len(order) THEN {[ok |-> TRUE, value |-> <<>>]}
    ELSE IF Unpackings(order[i]) = {} THEN {[ok |-> FALSE, value |-> <<>>]}
    ELSE UNION {
            {IF se[1] = label
                THEN [r EXCEPT !.value = <<<<se[2], G.edges[order[i]]>>>> \o @]
             ELSE IF se[2] = label
                THEN [r EXCEPT !.value = <<<<se[1], G.edges[order[i]]>>>> \o @]
             ELSE r : r \in GenNbrsFrom(G, label, order, i + 1)}
            : se \in Unpackings(order[i])}

\* the orders in which a dict or set holding S can iterate
Orders(S) == {o \in [1..Cardinality(S) -> S] : \A i, j \in DOMAIN o : o[i] = o[j] => i = j}

GenNbrs(G, label) ==
    UNION {GenNbrsFrom(G, label, order, 1) : order \in Orders(DOMAIN G.edges)}


\* a faulty neighbors: the label is not checked when the call is made
ENeighborsLazy(G, label) == [ok |-> TRUE, value |-> label]

\* neighbors: ok is FALSE when the call raises ValueError; otherwise the
\* generator _gen_nbrs(label) is returned, not yet started
ENeighbors(G, label) ==
    IF label \notin G.nodes THEN [ok |-> FALSE, value |-> None]
    ELSE [ok |-> TRUE, value |-> label]

EDegree(G, label) ==
    IF label \notin G.nodes THEN [ok |-> FALSE, value |-> None]
    ELSE [ok |-> TRUE, value |-> Cardinality({pair \in DOMAIN G.edges : label \in pair})]

EGraph == [nodes |-> gnodes, edges |-> gedges]

(***************************************************************************)
(* The state of the structures a specification does not drive.             *)
(***************************************************************************)
HeapIdle == entries = <<>> /\ indices = <<>> /\ hret = <<>>
PartIdle == parents = <<>> /\ weights = <<>> /\ pfirst = None /\ pret = <<>>
GraphIdle == adjacency = <<>> /\ gnodes = {} /\ gedges = <<>> /\ gret = <<>>

DjIdle ==
    /\ dpc = "idle" /\ dj_start = None /\ dj_req = {} /\ dj_targets = {}
    /\ came_from = <<>> /\ cur = <<>> /\ pending = {} /\ paths = <<>>

KrIdle == kpc = "idle" /\ sorted_edges = <<>> /\ kpos = 0 /\ mst = <<>>

exceptHeap == <<partVars, graphVars, djVars, krVars>>
exceptPart == <<heapVars, graphVars, djVars, krVars>>
exceptGraph == <<heapVars, partVars, djVars, krVars>>

(***************************************************************************)
(* SpecHeap: a HeapQueue under construction, push, pop and peek.           *)
(***************************************************************************)
HRet(op, item, key, ok) == [op |-> op, item |-> item, key |-> key, ok |-> ok]

\* The constructor is given entries with pairwise distinct items (class docstring).
HeapInit ==
    /\ PartIdle
    /\ GraphIdle
    /\ DjIdle
    /\ KrIdle
    /\ \E es \in InjSeqs(Items, MaxItem) :
         \E ks \in [1..Len(es) -> Keys] :
            LET h == NewHeap([i \in 1..Len(es) |-> <<es[i], ks[i]>>])
            IN  /\ entries = h.entries
                /\ indices = h.indices
                /\ hret = HRet("init", None, None, TRUE)

HeapPush ==
    \E item \in Items, key \in Keys :
        LET h == Push(Heap, item, key)
        IN  /\ entries' = h.entries
            /\ indices' = h.indices
            /\ hret' = HRet("push", item, key, TRUE)
            /\ UNCHANGED exceptHeap

HeapPop ==
    /\ HLen(Heap) > 0
    /\ LET r == Pop(Heap)
       IN  /\ entries' = r.heap.entries
           /\ indices' = r.heap.indices
           /\ hret' = HRet("pop", r.item, r.key, TRUE)
    /\ UNCHANGED exceptHeap

\* pop on an empty queue: _swap(0, -1) reads _entries[0] and raises IndexError
HeapPopEmpty ==
    /\ HLen(Heap) = 0
    /\ LET r == TryPop(Heap)
       IN  /\ entries' = r.heap.entries
           /\ indices' = r.heap.indices
           /\ hret' = HRet("pop", r.item, r.key, r.ok)
    /\ UNCHANGED exceptHeap

HeapPeek ==
    /\ HLen(Heap) > 0
    /\ hret' = HRet("peek", Peek(Heap), None, TRUE)
    /\ UNCHANGED <<entries, indices, exceptHeap>>

\* peek on an empty queue: _entries[0] raises IndexError
HeapPeekEmpty ==
    /\ HLen(Heap) = 0
    /\ hret' = HRet("peek", TryPeek(Heap).item, None, TryPeek(Heap).ok)
    /\ UNCHANGED <<entries, indices, exceptHeap>>

HeapNext ==
    \/ HeapPush
    \/ HeapPop
    \/ HeapPopEmpty
    \/ HeapPeek
    \/ HeapPeekEmpty

SpecHeap == HeapInit /\ [][HeapNext]_vars

(***************************************************************************)
(* SpecPartition: a Partition under construction, add_item, add_group,     *)
(* find, union and is_single_group.                                        *)
(***************************************************************************)
PRet(op, res, ok) == [op |-> op, res |-> res, ok |-> ok]

SetPart(p) == parents' = p.parents /\ weights' = p.weights

\* the first key of _parents once item has been inserted
FirstAfter(item) == IF pfirst = None THEN item ELSE pfirst

\* Partition(items): items is any list, its first element the first key
PartInit ==
    /\ HeapIdle
    /\ GraphIdle
    /\ DjIdle
    /\ KrIdle
    /\ \E S \in SUBSET PItems :
        /\ parents = NewPartition(S).parents
        /\ weights = NewPartition(S).weights
        /\ pfirst \in IF S = {} THEN {None} ELSE S
        /\ pret = PRet("init", None, TRUE)

PartAddItem ==
    \E item \in PItems :
        /\ SetPart(AddItem(Part, item))
        /\ pfirst' = FirstAfter(item)
        /\ pret' = PRet("add_item", None, TRUE)
        /\ UNCHANGED exceptPart

PartAddGroup ==
    \E n \in 0..MaxGroupLen :
    \E items \in [1..n -> PItems] :
        LET r == AddGroup(Part, items)
        IN  /\ SetPart(r.p)
            /\ pfirst' = IF r.ok THEN FirstAfter(items[1]) ELSE pfirst
            /\ pret' = PRet("add_group", r.err, r.ok)
            /\ UNCHANGED exceptPart

PartFind ==
    \E item \in DOMAIN parents :
        LET r == Find(Part, item)
        IN  /\ SetPart(r.p)
            /\ pret' = PRet("find", r.root, TRUE)
            /\ UNCHANGED <<pfirst, exceptPart>>

\* find of an item that is not in the partition: _parents[item] raises KeyError
PartFindMissing ==
    \E item \in PItems \ DOMAIN parents :
        /\ pret' = PRet("find", None, FALSE)
        /\ UNCHANGED <<parents, weights, pfirst, exceptPart>>

PartUnion ==
    \E item1, item2 \in DOMAIN parents :
        /\ SetPart(Union(Part, item1, item2))
        /\ pret' = PRet("union", None, TRUE)
        /\ UNCHANGED <<pfirst, exceptPart>>

\* union with an item that is not in the partition: find(item1) has compressed
\* its path when find(item2) raises KeyError
PartUnionMissing ==
    \E item1, item2 \in PItems :
        /\ item1 \notin DOMAIN parents \/ item2 \notin DOMAIN parents
        /\ SetPart(IF item1 \in DOMAIN parents THEN Find(Part, item1).p ELSE Part)
        /\ pret' = PRet("union", None, FALSE)
        /\ UNCHANGED <<pfirst, exceptPart>>

PartIsSingleGroup ==
    /\ pfirst # None
    /\ LET r == IsSingleGroup(Part, pfirst)
       IN  /\ SetPart(r.p)
           /\ pret' = PRet("is_single_group", r.value, TRUE)
    /\ UNCHANGED <<pfirst, exceptPart>>

\* is_single_group of an empty partition: next(iter(self)) raises StopIteration
PartIsSingleGroupEmpty ==
    /\ pfirst = None
    /\ pret' = PRet("is_single_group", None, FALSE)
    /\ UNCHANGED <<parents, weights, pfirst, exceptPart>>

PartNext ==
    \/ PartAddItem
    \/ PartAddGroup
    \/ PartFind
    \/ PartFindMissing
    \/ PartUnion
    \/ PartUnionMissing
    \/ PartIsSingleGroup
    \/ PartIsSingleGroupEmpty

SpecPartition == PartInit /\ [][PartNext]_vars

(***************************************************************************)
(* SpecGraph: a DirectedGraph and an EdgeMapGraph, both built empty and    *)
(* both given the same calls (as init_graph and cut_graph of the tests     *)
(* do); dok and eok tell whether the call returned (TRUE) or raised        *)
(* ValueError (FALSE) on the directed and on the edge-map variant.         *)
(***************************************************************************)
GRet(op, dok, eok) == [op |-> op, dok |-> dok, eok |-> eok]

SetEGraph(G) == gnodes' = G.nodes /\ gedges' = G.edges

GraphInit ==
    /\ HeapIdle
    /\ PartIdle
    /\ DjIdle
    /\ KrIdle
    /\ adjacency = <<>>
    /\ gnodes = EmptyEdgeMapGraph.nodes
    /\ gedges = EmptyEdgeMapGraph.edges
    /\ gret = GRet("init", TRUE, TRUE)

GraphAddNode ==
    \E label \in Labels :
        /\ adjacency' = DAddNode(adjacency, label)
        /\ SetEGraph(EAddNode(EGraph, label))
        /\ gret' = GRet("add_node", TRUE, TRUE)
        /\ UNCHANGED exceptGraph

GraphAddEdge ==
    \E start, end \in Labels, weight \in Weights :
        /\ DEdgeCount(DAddEdge(adjacency, start, end, weight)) <= MaxEdges
        /\ adjacency' = DAddEdge(adjacency, start, end, weight)
        /\ SetEGraph(EAddEdge(EGraph, start, end, weight))
        /\ gret' = GRet("add_edge", TRUE, TRUE)
        /\ UNCHANGED exceptGraph

GraphRemoveNode ==
    \E label \in Labels :
        LET d == DRemoveNode(adjacency, label)
            e == ERemoveNode(EGraph, label)
        IN  /\ adjacency' = d.g
            /\ SetEGraph(e.g)
            /\ gret' = GRet("remove_node", d.ok, e.ok)
            /\ UNCHANGED exceptGraph

GraphRemoveEdge ==
    \E start, end \in Labels :
        LET d == DRemoveEdge(adjacency, start, end)
            e == ERemoveEdge(EGraph, start, end)
        IN  /\ adjacency' = d.g
            /\ SetEGraph(e.g)
            /\ gret' = GRet("remove_edge", d.ok, e.ok)
            /\ UNCHANGED exceptGraph


\* neighbors(label) on both variants: the call itself, which only checks the
\* label and hands out an iterator
GraphNeighbors ==
    \E label \in Labels :
        /\ gret' = GRet("neighbors", DNeighbors(adjacency, label).ok,
                        ENeighbors(EGraph, label).ok)
        /\ UNCHANGED <<adjacency, gnodes, gedges, exceptGraph>>

\* the iterators neighbors(label) returned, consumed to their end: the dict
\* iterator of the directed graph always ends, _gen_nbrs may raise
GraphConsumeNeighbors ==
    \E label \in DNodes(adjacency) \cap ENodes(EGraph) :
        \E r \in GenNbrs(EGraph, label) :
            /\ gret' = GRet("consume", TRUE, r.ok)
            /\ UNCHANGED <<adjacency, gnodes, gedges, exceptGraph>>

GraphDegree ==
    \E label \in Labels :
        /\ gret' = GRet("degree", DDegree(adjacency, label).ok, EDegree(EGraph, label).ok)
        /\ UNCHANGED <<adjacency, gnodes, gedges, exceptGraph>>

GraphWeight ==
    \E start, end \in Labels :
        /\ gret' = GRet("weight", DWeight(adjacency, start, end).ok,
                        EWeight(EGraph, start, end).ok)
        /\ UNCHANGED <<adjacency, gnodes, gedges, exceptGraph>>

GraphNext ==
    \/ GraphAddNode
    \/ GraphAddEdge
    \/ GraphRemoveNode
    \/ GraphRemoveEdge
    \/ GraphNeighbors
    \/ GraphConsumeNeighbors
    \/ GraphDegree
    \/ GraphWeight

SpecGraph == GraphInit /\ [][GraphNext]_vars

(***************************************************************************)
(* Dijkstra (weighted_graph.py, DirectedGraph.single_source_shortest_paths)*)
(***************************************************************************)
\* cur_cost + weight on floats: inf + weight is inf
KeyAdd(cost, weight) == IF cost = INF THEN INF ELSE cost + weight

\* a faulty nxt_cost: every edge counts as one hop
NxtCostHops(cur_cost, weight) == KeyAdd(cur_cost, 1)

NxtCost(cur_cost, weight) == KeyAdd(cur_cost, weight)

\* HeapQueue((node, INF) for node in self.nodes), nodes iterated in order
Frontier(order) == NewHeap([i \in 1..Len(order) |-> <<order[i], INF>>])

RECURSIVE Backtrack(_, _)
Backtrack(cf, cur_node) ==
    IF cur_node = None THEN <<>>
    ELSE Append(Backtrack(cf, cf[cur_node]), cur_node)

\* a faulty _construct_path: the backtracked list is not reversed
ConstructPathBackward(cf, target) ==
    LET p == Backtrack(cf, target) IN [i \in 1..Len(p) |-> p[Len(p) + 1 - i]]

ConstructPath(cf, target) == Backtrack(cf, target)


\* a faulty result mapping: a path for every node of came_from, whatever the
\* targets asked for
ResultAllReached(cf, targetset) == [target \in DOMAIN cf |-> ConstructPath(cf, target)]

\* the result mapping of single_source_shortest_paths
Result(cf, targetset) ==
    [target \in targetset |->
        IF target \notin DOMAIN cf THEN <<>> ELSE ConstructPath(cf, target)]

\* init_graph(DirectedGraph) of the tests: the example graph of the spec
InitGraph ==
    LET g1 == DAddNode(<<>>, 0)
        g2 == DAddEdge(g1, 1, 2, -100)
        g3 == DAddEdge(g2, 3, 4, -100)
        g4 == DAddEdge(g3, 2, 1, 1)
        g5 == DAddEdge(g4, 4, 3, 3)
        g6 == DAddEdge(g5, 1, 0, 1)
        g7 == DAddEdge(g6, 0, 2, 2)
        g8 == DAddEdge(g7, 1, 3, 4)
        g9 == DAddEdge(g8, 3, 2, 5)
        g10 == DAddNode(g9, 0)
        g11 == DAddEdge(g10, 1, 2, 3)
    IN  DAddEdge(g11, 3, 4, 6)

(***************************************************************************)
(* SpecDijkstra: one call single_source_shortest_paths(start, targets) on  *)
(* a graph drawn from the bounded inputs, run step by step.                *)
(***************************************************************************)

\* cut_graph(init_graph(DirectedGraph)) of the tests: nodes 0 and 4 and the
\* edge (2, 1) removed again
CutGraph ==
    LET g1 == DRemoveNode(InitGraph, 0).g
        g2 == DRemoveNode(g1, 4).g
    IN  DRemoveEdge(g2, 2, 1).g

DjNodes == 0..DjMaxNode
DjWeights == 0..DjMaxWeight

\* the graph with the nodes N and the weighted edges w : E -> weight
GraphOf(N, w) ==
    [n \in N |-> [m \in {e[2] : e \in {x \in DOMAIN w : x[1] = n}} |-> w[<<n, m>>]]]

exceptDj == <<hret, partVars, gnodes, gedges, gret, krVars>>

DjInitRandom ==
    \E E \in SUBSET (DjNodes \X DjNodes) :
        /\ Cardinality(E) <= DjMaxEdges
        /\ \E w \in [E -> DjWeights] :
           \E N \in SUBSET DjNodes :
               /\ \A e \in E : e[1] \in N /\ e[2] \in N
               /\ adjacency = GraphOf(N, w)
        /\ dj_start \in DjNodes
        /\ dj_req \in SUBSET DjNodes

DjInitExample ==
    /\ adjacency = InitGraph
    /\ dj_start = 1
    /\ dj_req = DOMAIN InitGraph


\* the calls of the tests on the graph after cut_graph, any start and targets
DjInitCut ==
    /\ adjacency = CutGraph
    /\ dj_start \in DOMAIN InitGraph
    /\ dj_req \in SUBSET (DOMAIN InitGraph)

DjInit ==
    /\ PartIdle
    /\ KrIdle
    /\ gnodes = {} /\ gedges = <<>> /\ gret = <<>>
    /\ entries = <<>> /\ indices = <<>> /\ hret = <<>>
    /\ DjInitRandom \/ DjInitExample \/ DjInitCut
    /\ dpc = "call"
    /\ dj_targets = {}
    /\ came_from = <<>>
    /\ cur = <<>>
    /\ pending = {}
    /\ paths = <<>>


\* a faulty check: the targets are not looked at
StartExists(A, start_, targets) == start_ \in DOMAIN A

\* check all nodes exist
AllNodesExist(A, start_, targets) ==
    /\ start_ \in DOMAIN A
    /\ \A target \in targets : target \in DOMAIN A

\* check all nodes exist: ValueError before _dijkstra is called
DjCallError ==
    /\ dpc = "call"
    /\ ~AllNodesExist(adjacency, dj_start, dj_req)
    /\ dpc' = "error"
    /\ UNCHANGED <<entries, indices, adjacency, dj_start, dj_req, dj_targets,
                   came_from, cur, pending, paths, exceptDj>>

\* _dijkstra up to the while loop
DjCall ==
    /\ dpc = "call"
    /\ AllNodesExist(adjacency, dj_start, dj_req)
    /\ \E order \in Orders(DOMAIN adjacency) :
        LET frontier == Push(Frontier(order), dj_start, 0)
        IN  entries' = frontier.entries /\ indices' = frontier.indices
    /\ came_from' = (dj_start :> None)
    /\ dj_targets' = dj_req
    /\ dpc' = "loop"
    /\ UNCHANGED <<adjacency, dj_start, dj_req, cur, pending, paths, exceptDj>>

\* a faulty exit test: the loop is left at the first pop, whatever is pending
AllFoundAtOnce(left) == TRUE

\* if not targets: break
AllFound(left) == left = {}

\* while frontier: pop, discard, and leave the loop once all targets are found
DjPop ==
    /\ dpc = "loop"
    /\ HLen(Heap) > 0
    /\ LET r == Pop(Heap)
           left == dj_targets \ {r.item}
       IN  /\ entries' = r.heap.entries
           /\ indices' = r.heap.indices
           /\ cur' = <<r.item, r.key>>
           /\ dj_targets' = left
           /\ IF AllFound(left)
              THEN /\ dpc' = "done"
                   /\ pending' = {}
                   /\ paths' = Result(came_from, dj_req)
              ELSE /\ pending' = DOMAIN adjacency[r.item]
                   /\ dpc' = IF DOMAIN adjacency[r.item] = {} THEN "loop" ELSE "relax"
                   /\ paths' = paths
    /\ UNCHANGED <<adjacency, dj_start, dj_req, came_from, exceptDj>>

\* a faulty pass: the neighbour dict is consumed, each visited edge popped
RelaxGraphPopEdge(A, cur_node, nxt_node) ==
    [A EXCEPT ![cur_node] = [m \in DOMAIN A[cur_node] \ {nxt_node} |-> A[cur_node][m]]]

\* the graph after one pass of the for loop: neighbors hands out an iterator
\* over the node's neighbour dict and the pass only reads the pair it yields
RelaxGraph(A, cur_node, nxt_node) == A

\* one pass of: for nxt_node, weight in self.neighbors(cur_node)
DjRelax ==
    /\ dpc = "relax"
    /\ \E nxt_node \in pending :
        LET weight == adjacency[cur[1]][nxt_node]
            nxt_cost == NxtCost(cur[2], weight)
            better == Contains(Heap, nxt_node) /\ nxt_cost < GetItem(Heap, nxt_node)
            frontier == IF better THEN Push(Heap, nxt_node, nxt_cost) ELSE Heap
        IN  /\ entries' = frontier.entries
            /\ indices' = frontier.indices
            /\ came_from' = IF better THEN Put(came_from, nxt_node, cur[1]) ELSE came_from
            /\ pending' = pending \ {nxt_node}
            /\ dpc' = IF pending = {nxt_node} THEN "loop" ELSE "relax"
            /\ adjacency' = RelaxGraph(adjacency, cur[1], nxt_node)
    /\ UNCHANGED <<dj_start, dj_req, dj_targets, cur, paths, exceptDj>>

\* The while loop is never left through its condition: every requested target
\* is a node, every node is in the frontier, so the break is taken at the
\* latest when the last node is popped (LoopLeftByBreak states it).
DjNext ==
    \/ DjCallError
    \/ DjCall
    \/ DjPop
    \/ DjRelax

SpecDijkstra == DjInit /\ [][DjNext]_vars

(***************************************************************************)
(* Kruskal (weighted_graph.py, EdgeMapGraph.min_span_tree)                 *)
(***************************************************************************)
IsSortedByWeight(es) == \A i, j \in 1..Len(es) : i < j => es[i][2] <= es[j][2]

\* a faulty sorted_edges: the edges in iteration order, unsorted
AnyOrders(G) == Orders(EEdges(G))

\* sorted(self.edges, key=weight): the sort is stable and self.edges iterates
\* in the dict's order, so every weight-sorted order of the edges can come out
SortedOrders(G) == {es \in Orders(EEdges(G)) : IsSortedByWeight(es)}

\* a faulty pass: the chosen edge is put in front of the result
KruskalPassPrepend(forest, res, edge, start_, end_) ==
    LET f1 == Find(forest, start_)
        f2 == Find(f1.p, end_)
    IN  IF f1.root # f2.root
        THEN [forest |-> Union(f2.p, start_, end_), res |-> <<edge>> \o res]
        ELSE [forest |-> f2.p, res |-> res]

\* one pass of the for loop over edge with start, end = edge.pair:
\* the forest and the result afterwards
KruskalPass(forest, res, edge, start_, end_) ==
    LET f1 == Find(forest, start_)
        f2 == Find(f1.p, end_)
    IN  IF f1.root # f2.root
        THEN [forest |-> Union(f2.p, start_, end_), res |-> Append(res, edge)]
        ELSE [forest |-> f2.p, res |-> res]

(***************************************************************************)
(* SpecKruskal: one evaluation of min_span_tree on an EdgeMapGraph drawn   *)
(* from the bounded inputs, run one for-loop pass at a time.               *)
(***************************************************************************)
KrNodes == 1..KrMaxNode
KrWeights == 1..KrMaxWeight
KrPairs == {{a, b} : a, b \in KrNodes}

exceptKr == <<heapVars, pfirst, pret, adjacency, gret, djVars>>

KrInit ==
    /\ HeapIdle
    /\ DjIdle
    /\ adjacency = <<>> /\ gret = <<>>
    /\ parents = <<>> /\ weights = <<>> /\ pfirst = None /\ pret = <<>>
    /\ \E E \in SUBSET KrPairs :
        /\ Cardinality(E) <= KrMaxEdges
        /\ gedges \in [E -> KrWeights]
        /\ \E N \in SUBSET KrNodes :
            /\ \A pair \in E : pair \subseteq N
            /\ gnodes = N
    /\ kpc = "call"
    /\ sorted_edges = <<>>
    /\ kpos = 0
    /\ mst = <<>>

\* result = [], the forest, the sorted edges; without edges the loop is skipped
KrCall ==
    /\ kpc = "call"
    /\ SetPart(NewPartition(ENodes(EGraph)))
    /\ sorted_edges' \in SortedOrders(EGraph)
    /\ kpos' = 1
    /\ mst' = <<>>
    /\ kpc' = IF EEdgeCount(EGraph) = 0 THEN "done" ELSE "loop"
    /\ UNCHANGED <<gnodes, gedges, exceptKr>>

\* one pass of the for loop, with the break when node_count - 1 edges are chosen
KrPass ==
    /\ kpc = "loop"
    /\ LET edge == sorted_edges[kpos]
       IN  /\ Cardinality(edge[1]) = 2
           /\ \E se \in Unpackings(edge[1]) :
               LET r == KruskalPass(Part, mst, edge, se[1], se[2])
               IN  /\ SetPart(r.forest)
                   /\ mst' = r.res
                   /\ kpc' = IF Len(r.res) = ENodeCount(EGraph) - 1 THEN "done"
                             ELSE IF kpos = Len(sorted_edges) THEN "done"
                             ELSE "loop"
    /\ kpos' = kpos + 1
    /\ UNCHANGED <<gnodes, gedges, sorted_edges, exceptKr>>

\* start, end = edge.pair on the one-element pair of a self-loop: ValueError
KrPassSelfLoop ==
    /\ kpc = "loop"
    /\ Cardinality(sorted_edges[kpos][1]) = 1
    /\ kpc' = "error"
    /\ UNCHANGED <<gnodes, gedges, parents, weights, sorted_edges, kpos, mst, exceptKr>>

KrNext ==
    \/ KrCall
    \/ KrPass
    \/ KrPassSelfLoop

SpecKruskal == KrInit /\ [][KrNext]_vars

(***************************************************************************)
(* Reference definitions the properties are stated with.                   *)
(***************************************************************************)
HasEdge(A, a, b) == a \in DOMAIN A /\ b \in DOMAIN A[a]

\* p is a walk of A: a non-empty node sequence whose consecutive pairs are edges
IsWalk(A, p) ==
    /\ Len(p) >= 1
    /\ \A i \in 1..Len(p) : p[i] \in DOMAIN A
    /\ \A i \in 1..(Len(p) - 1) : HasEdge(A, p[i], p[i + 1])

RECURSIVE WalkCost(_, _)
WalkCost(A, p) ==
    IF Len(p) <= 1 THEN 0
    ELSE A[p[1]][p[2]] + WalkCost(A, Tail(p))

\* every path (walk without a repeated node) of A from s to t
AllPaths(A, s, t) ==
    {p \in InjSeqs(DOMAIN A, Cardinality(DOMAIN A)) :
        Len(p) >= 1 /\ p[1] = s /\ p[Len(p)] = t /\ IsWalk(A, p)}

MinCost(A, s, t) == Min({WalkCost(A, p) : p \in AllPaths(A, s, t)})

LoopLeftByBreak == dpc = "loop" => Len(entries) > 0

\* the nodes joined to S by the pairs of E
RECURSIVE ReachFrom(_, _)
ReachFrom(S, E) ==
    LET S2 == S \cup UNION {pair \in E : pair \cap S # {}}
    IN  IF S2 = S THEN S ELSE ReachFrom(S2, E)

Connected(N, E) == N # {} /\ ReachFrom({CHOOSE n \in N : TRUE}, E) = N

Acyclic(E) ==
    \A pair \in E :
        /\ Cardinality(pair) = 2
        /\ \E a \in pair : (pair \ {a}) \cap ReachFrom({a}, E \ {pair}) = {}

RECURSIVE TotalWeight(_, _)
TotalWeight(w, E) ==
    IF E = {} THEN 0
    ELSE LET pair == CHOOSE q \in E : TRUE IN w[pair] + TotalWeight(w, E \ {pair})

SpanningTrees(N, E) ==
    {T \in SUBSET E : Cardinality(T) = Cardinality(N) - 1 /\ Connected(N, T)}

\* the connected components of the graph with nodes N and pairs E
Components(N, E) == {ReachFrom({n}, E) : n \in N}

\* the spanning forests: acyclic edge sets that join every component
SpanningForests(N, E) ==
    {T \in SUBSET E :
        Acyclic(T) /\ Cardinality(T) = Cardinality(N) - Cardinality(Components(N, E))}

\* the partition's groups, read with find
Root(p, item) == Find(p, item).root

Groups(p) ==
    {{y \in DOMAIN p.parents : Root(p, y) = Root(p, x)} : x \in DOMAIN p.parents}

(***************************************************************************)
(* Properties.                                                             *)
(***************************************************************************)

\* C1: when single_source_shortest_paths has returned, every requested target
\* that is reachable from start is mapped to a walk from start to the target
\* whose cumulative weight is the minimum over all start-to-target paths found
\* by exhaustive enumeration; on the example graph with start 1 and targets
\* 0..4 the result is {0:[1,0], 1:[1], 2:[1,2], 3:[1,3], 4:[1,3,4]}.
C1_DijkstraMinCost ==
    dpc = "done" =>
        /\ \A t \in dj_req :
            AllPaths(adjacency, dj_start, t) # {} =>
                /\ IsWalk(adjacency, paths[t])
                /\ paths[t][1] = dj_start
                /\ paths[t][Len(paths[t])] = t
                /\ WalkCost(adjacency, paths[t]) = MinCost(adjacency, dj_start, t)
        /\ (adjacency = InitGraph /\ dj_start = 1 /\ dj_req = 0..4) =>
            paths = (0 :> <<1, 0>>) @@ (1 :> <<1>>) @@ (2 :> <<1, 2>>)
                    @@ (3 :> <<1, 3>>) @@ (4 :> <<1, 3, 4>>)

\* a call has returned a two-edge path that is strictly cheaper than the
\* direct edge from start to that target
C1_Witness ==
    /\ dpc = "done"
    /\ \E t \in dj_req :
        /\ Len(paths[t]) = 3
        /\ HasEdge(adjacency, dj_start, t)
        /\ WalkCost(adjacency, paths[t]) < adjacency[dj_start][t]

\* C2: when min_span_tree has returned on a connected graph without
\* self-loops, the result holds node_count - 1 distinct edges of the graph,
\* these contain no cycle, and their total weight is the minimum over all
\* spanning trees of the graph.
C2_KruskalMinimal ==
    (/\ kpc = "done"
     /\ Connected(gnodes, DOMAIN gedges)
     /\ \A pair \in DOMAIN gedges : Cardinality(pair) = 2) =>
        LET chosen == {mst[i][1] : i \in 1..Len(mst)}
        IN  /\ Len(mst) = ENodeCount(EGraph) - 1
            /\ Cardinality(chosen) = Len(mst)
            /\ \A i \in 1..Len(mst) : mst[i] \in EEdges(EGraph)
            /\ Acyclic(chosen)
            /\ TotalWeight(gedges, chosen) =
                 Min({TotalWeight(gedges, T) : T \in SpanningTrees(gnodes, DOMAIN gedges)})

\* min_span_tree has returned on a connected four-node graph with a cycle,
\* leaving out an edge that is lighter than one it chose
C2_Witness ==
    /\ kpc = "done"
    /\ Connected(gnodes, DOMAIN gedges)
    /\ \A pair \in DOMAIN gedges : Cardinality(pair) = 2
    /\ Cardinality(gnodes) = 4
    /\ Len(mst) = 3
    /\ \E pair \in DOMAIN gedges :
        /\ \A i \in 1..Len(mst) : mst[i][1] # pair
        /\ \E i \in 1..Len(mst) : gedges[pair] < mst[i][2]

\* C3: in every state of a HeapQueue reached by construction, push (of new
\* and of existing items) and pop, every non-root entry has a key greater
\* than or equal to the key of its parent at index (i-1)//2.
C3_HeapProperty ==
    \A i \in 1..(Len(entries) - 1) : KeyAt(Heap, i) >= KeyAt(Heap, (i - 1) \div 2)

\* a push has left a three-level heap whose last entry has a larger key than
\* the root
C3_Witness ==
    /\ hret.op = "push"
    /\ Len(entries) >= 4
    /\ KeyAt(Heap, 3) > KeyAt(Heap, 0)

C5_PopReturnsMin ==
    /\ Len(entries) > 0 =>
        LET r == Pop(Heap)
        IN  /\ Contains(Heap, r.item)
            /\ GetItem(Heap, r.item) = r.key
            /\ \A x \in DOMAIN indices : r.key <= GetItem(Heap, x)
            /\ ~Contains(r.heap, r.item)
            /\ DOMAIN r.heap.indices = DOMAIN indices \ {r.item}
            /\ HLen(r.heap) = Len(entries) - 1
            /\ \A x \in DOMAIN r.heap.indices : GetItem(r.heap, x) = GetItem(Heap, x)
    /\ (hret.op = "pop" /\ hret.ok) =>
        /\ hret.item \notin DOMAIN indices
        /\ \A x \in DOMAIN indices : hret.key <= GetItem(Heap, x)

\* a pop has returned a key strictly smaller than a key left in a queue of
\* at least three entries
C5_Witness ==
    /\ hret.op = "pop"
    /\ hret.ok
    /\ Len(entries) >= 3
    /\ \E x \in DOMAIN indices : hret.key < GetItem(Heap, x)

\* C6: in both graph variants, after any sequence of add_node, add_edge,
\* remove_node and remove_edge calls (failed ones included), both endpoints of
\* every edge are nodes.
C6_EndpointsAreNodes ==
    /\ \A e \in DEdges(adjacency) : e[1] \in DNodes(adjacency) /\ e[2] \in DNodes(adjacency)
    /\ \A e \in EEdges(EGraph) : e[1] \subseteq ENodes(EGraph)

\* a remove_node has succeeded on both variants and both still hold edges
C6_Witness ==
    /\ gret.op = "remove_node"
    /\ gret.dok /\ gret.eok
    /\ DEdgeCount(adjacency) >= 1
    /\ EEdgeCount(EGraph) >= 1

\* C7: in both graph variants remove_node(n) of a node n succeeds, removes n
\* from the nodes and exactly the edges with n as an endpoint (directed:
\* outgoing and incoming), keeps every other node and every other edge with
\* its weight, and node_count and edge_count are the sizes of the resulting
\* node and edge sets.
C7_RemoveNodeExact ==
    /\ \A n \in DNodes(adjacency) :
        LET r == DRemoveNode(adjacency, n)
        IN  /\ r.ok
            /\ DNodes(r.g) = DNodes(adjacency) \ {n}
            /\ DEdges(r.g) = {e \in DEdges(adjacency) : e[1] # n /\ e[2] # n}
            /\ DNodeCount(r.g) = Cardinality(DNodes(r.g))
            /\ DEdgeCount(r.g) = Cardinality(DEdges(r.g))
    /\ \A n \in ENodes(EGraph) :
        LET r == ERemoveNode(EGraph, n)
        IN  /\ r.ok
            /\ ENodes(r.g) = ENodes(EGraph) \ {n}
            /\ EEdges(r.g) = {e \in EEdges(EGraph) : n \notin e[1]}
            /\ ENodeCount(r.g) = Cardinality(ENodes(r.g))
            /\ EEdgeCount(r.g) = Cardinality(EEdges(r.g))

\* a remove_node has succeeded on both variants, leaving two nodes and, in the
\* directed graph, edges in both directions between them
C7_Witness ==
    /\ gret.op = "remove_node"
    /\ gret.dok /\ gret.eok
    /\ Cardinality(gnodes) = 2
    /\ DEdgeCount(adjacency) >= 2
    /\ \E a, b \in DNodes(adjacency) :
        a # b /\ HasEdge(adjacency, a, b) /\ HasEdge(adjacency, b, a)

\* C8: in both graph variants remove_node of an absent label and remove_edge
\* of an edge that does not exist (directed: also when start has no edge to
\* end, or only the reverse edge exists) raise ValueError and leave the nodes,
\* the edges and all weights as they were.
C8_FailedRemovalsChangeNothing ==
    /\ \A n \in Labels \ DNodes(adjacency) :
        DRemoveNode(adjacency, n) = [ok |-> FALSE, g |-> adjacency]
    /\ \A n \in Labels \ ENodes(EGraph) :
        ERemoveNode(EGraph, n) = [ok |-> FALSE, g |-> EGraph]
    /\ \A a, b \in Labels :
        /\ ~HasEdge(adjacency, a, b) =>
            DRemoveEdge(adjacency, a, b) = [ok |-> FALSE, g |-> adjacency]
        /\ {a, b} \notin DOMAIN gedges =>
            ERemoveEdge(EGraph, a, b) = [ok |-> FALSE, g |-> EGraph]

\* a remove_edge has failed on the directed graph, which holds only the
\* reverse edge, and an absent label exists
C8_Witness ==
    /\ gret.op = "remove_edge"
    /\ ~gret.dok
    /\ Labels \ DNodes(adjacency) # {}
    /\ \E a, b \in DNodes(adjacency) :
        a # b /\ HasEdge(adjacency, a, b) /\ ~HasEdge(adjacency, b, a)

\* C9: for items a, b of a Partition: after union(a, b), find(a) = find(b),
\* and a further union(a, b) or union(b, a) keeps both the equality and the
\* root; union(a, a) changes no group; find(find(x)) = find(x) for every x.
C9_UnionFindStable ==
    /\ \A x \in DOMAIN parents :
        LET f == Find(Part, x) IN Find(f.p, f.root).root = f.root
    /\ \A a \in DOMAIN parents : Groups(Union(Part, a, a)) = Groups(Part)
    /\ \A a, b \in DOMAIN parents :
        LET q == Union(Part, a, b)
            q2 == Union(q, a, b)
            q3 == Union(q, b, a)
        IN  /\ Root(q, a) = Root(q, b)
            /\ Root(q2, a) = Root(q2, b) /\ Root(q2, a) = Root(q, a)
            /\ Root(q3, a) = Root(q3, b) /\ Root(q3, a) = Root(q, a)
            /\ Groups(q2) = Groups(q) /\ Groups(q3) = Groups(q)

\* a union has built a tree of height two (an item whose parent is not a root)
C9_Witness ==
    /\ pret.op = "union"
    /\ pret.ok
    /\ \E x \in DOMAIN parents : parents[parents[x]] # parents[x]

\* C10: in both graph variants, after add_edge(start, end, w) weight(start,
\* end) returns w; when the edge existed, its weight is replaced, edge_count
\* is unchanged and the edge set holds one edge for it, all others as before.
C10_AddEdgeThenWeight ==
    \A a, b \in Labels, w \in Weights :
        /\ LET g == DAddEdge(adjacency, a, b, w)
           IN  /\ DWeight(g, a, b) = [ok |-> TRUE, value |-> w]
               /\ HasEdge(adjacency, a, b) =>
                    /\ DEdgeCount(g) = DEdgeCount(adjacency)
                    /\ DEdges(g) = (DEdges(adjacency) \ {<<a, b, adjacency[a][b]>>})
                                    \cup {<<a, b, w>>}
        /\ LET g == EAddEdge(EGraph, a, b, w)
           IN  /\ EWeight(g, a, b) = [ok |-> TRUE, value |-> w]
               /\ {a, b} \in DOMAIN gedges =>
                    /\ EEdgeCount(g) = EEdgeCount(EGraph)
                    /\ EEdges(g) = (EEdges(EGraph) \ {<<{a, b}, gedges[{a, b}]>>})
                                    \cup {<<{a, b}, w>>}

\* an add_edge has been made and the directed graph holds an edge in both
\* directions, which the edge-map graph holds as one
C10_Witness ==
    /\ gret.op = "add_edge"
    /\ EEdgeCount(EGraph) < DEdgeCount(adjacency)
    /\ \E a, b \in DNodes(adjacency) :
        a # b /\ HasEdge(adjacency, a, b) /\ HasEdge(adjacency, b, a)
           /\ adjacency[a][b] # adjacency[b][a]

\* C11: in EdgeMapGraph the edge between a and b is one edge whatever the
\* argument order: after add_edge(a, b, w), weight(b, a) returns w;
\* add_edge(b, a, w2) overwrites that edge and edge_count stays; and
\* remove_edge(b, a) removes it.
C11_UnorderedPair ==
    \A a, b \in Labels, w, w2 \in Weights :
        LET g == EAddEdge(EGraph, a, b, w)
            g2 == EAddEdge(g, b, a, w2)
            r == ERemoveEdge(g, b, a)
        IN  /\ EWeight(g, b, a) = [ok |-> TRUE, value |-> w]
            /\ EWeight(g, a, b) = [ok |-> TRUE, value |-> w]
            /\ EEdgeCount(g2) = EEdgeCount(g)
            /\ EWeight(g2, a, b) = [ok |-> TRUE, value |-> w2]
            /\ EEdges(g2) = (EEdges(g) \ {<<{a, b}, w>>}) \cup {<<{a, b}, w2>>}
            /\ r.ok
            /\ EEdges(r.g) = EEdges(g) \ {<<{a, b}, w>>}
            /\ EEdgeCount(r.g) = EEdgeCount(g) - 1
            /\ ~EWeight(r.g, a, b).ok /\ ~EWeight(r.g, b, a).ok

\* a remove_edge(b, a) has removed the edge of the edge-map graph while it
\* failed on the directed graph, which holds only the edge (a, b)
C11_Witness ==
    /\ gret.op = "remove_edge"
    /\ gret.eok /\ ~gret.dok
    /\ \E a, b \in DNodes(adjacency) :
        a # b /\ HasEdge(adjacency, a, b) /\ {a, b} \notin DOMAIN gedges

\* C12: a successful remove_edge(start, end) removes exactly one edge and no
\* node: in DirectedGraph the edge (start, end) only, a reverse edge keeping
\* its weight; in EdgeMapGraph the edge of the pair {start, end} only; every
\* other edge and every node, the two endpoints included, stay as they were.
C12_RemoveEdgeExact ==
    \A a, b \in Labels :
        /\ HasEdge(adjacency, a, b) =>
            LET r == DRemoveEdge(adjacency, a, b)
            IN  /\ r.ok
                /\ DNodes(r.g) = DNodes(adjacency)
                /\ DEdges(r.g) = DEdges(adjacency) \ {<<a, b, adjacency[a][b]>>}
                /\ DEdgeCount(r.g) = DEdgeCount(adjacency) - 1
                /\ (a # b /\ HasEdge(adjacency, b, a)) =>
                      DWeight(r.g, b, a) = [ok |-> TRUE, value |-> adjacency[b][a]]
        /\ {a, b} \in DOMAIN gedges =>
            LET r == ERemoveEdge(EGraph, a, b)
            IN  /\ r.ok
                /\ ENodes(r.g) = ENodes(EGraph)
                /\ EEdges(r.g) = EEdges(EGraph) \ {<<{a, b}, gedges[{a, b}]>>}
                /\ EEdgeCount(r.g) = EEdgeCount(EGraph) - 1

\* a remove_edge has succeeded on both variants; the directed graph still
\* holds the reverse edge of a pair the edge-map graph no longer holds, and
\* both endpoints are still nodes
C12_Witness ==
    /\ gret.op = "remove_edge"
    /\ gret.dok /\ gret.eok
    /\ \E a, b \in DNodes(adjacency) :
        /\ a # b
        /\ HasEdge(adjacency, b, a) /\ ~HasEdge(adjacency, a, b)
        /\ {a, b} \notin DOMAIN gedges
        /\ {a, b} \subseteq gnodes

\* the endpoint of an edge-map pair other than label (label itself on a self-loop)
OtherEnd(pair, label) == IF pair = {label} THEN label ELSE CHOOSE x \in pair : x # label

\* C13: for every node label of every reachable graph state,
\* DirectedGraph.neighbors(label) yields exactly the (end, weight) pairs of the
\* edges starting at label, and EdgeMapGraph.neighbors(label), consumed to its
\* end, yields exactly one (other endpoint, weight) pair per edge at label.
C13_NeighborsExact ==
    /\ \A label \in DNodes(adjacency) :
        DNeighbors(adjacency, label) =
            [ok |-> TRUE,
             value |-> {<<e[2], e[3]>> : e \in {x \in DEdges(adjacency) : x[1] = label}}]
    /\ \A label \in ENodes(EGraph) :
        /\ ENeighbors(EGraph, label).ok
        /\ \A r \in GenNbrs(EGraph, label) :
            LET incident == {pair \in DOMAIN gedges : label \in pair}
            IN  /\ r.ok
                /\ Len(r.value) = Cardinality(incident)
                /\ Range(r.value) = {<<OtherEnd(pair, label), gedges[pair]>> : pair \in incident}

\* neighbors(label) of the edge-map graph has been consumed and raised
\* ValueError part-way, on a graph that holds a self-loop
C13_Witness ==
    /\ gret.op = "consume"
    /\ ~gret.eok
    /\ \E pair \in DOMAIN gedges : Cardinality(pair) = 1

\* C14: for every node label, DirectedGraph.degree(label) is the number of
\* edges starting at label (edges ending there are not counted) and
\* EdgeMapGraph.degree(label) is the number of edges whose pair contains
\* label, a self-loop on label counting once.
C14_Degree ==
    /\ \A label \in DNodes(adjacency) :
        DDegree(adjacency, label) =
            [ok |-> TRUE, value |-> Cardinality({e \in DEdges(adjacency) : e[1] = label})]
    /\ \A label \in ENodes(EGraph) :
        EDegree(EGraph, label) =
            [ok |-> TRUE, value |-> Cardinality({e \in EEdges(EGraph) : label \in e[1]})]
    /\ \A label \in ENodes(EGraph) :
        (DOMAIN gedges = {{label}}) => EDegree(EGraph, label).value = 1

\* degree has been called on both variants of a graph in which a node has a
\* self-loop, a further edge-map edge and an edge coming in from another node
C14_Witness ==
    /\ gret.op = "degree"
    /\ gret.dok /\ gret.eok
    /\ \E label, other \in DNodes(adjacency) :
        /\ other # label
        /\ {label} \in DOMAIN gedges
        /\ {label, other} \in DOMAIN gedges
        /\ HasEdge(adjacency, other, label)
        /\ EDegree(EGraph, label).value = 2

\* the calls of the last step were queries: neighbors, degree, weight, or the
\* consumption of a neighbors iterator
QueryMade == gret.op \in {"neighbors", "consume", "degree", "weight"}

\* C15: in both graph variants neighbors(label) and degree(label) of a label
\* that is not a node, and weight(start, end) of an edge that does not exist,
\* raise ValueError when called (neighbors: before anything is consumed), also
\* for a node or an edge that has just been removed; and no query changes the
\* graph.
C15_QueriesFailEagerly ==
    /\ [](/\ \A label \in Labels \ DNodes(adjacency) :
              ~DNeighbors(adjacency, label).ok /\ ~DDegree(adjacency, label).ok
          /\ \A label \in Labels \ ENodes(EGraph) :
              ~ENeighbors(EGraph, label).ok /\ ~EDegree(EGraph, label).ok
          /\ \A a, b \in Labels :
              /\ ~HasEdge(adjacency, a, b) => ~DWeight(adjacency, a, b).ok
              /\ {a, b} \notin DOMAIN gedges => ~EWeight(EGraph, a, b).ok
          /\ \A n \in DNodes(adjacency) :
              LET g == DRemoveNode(adjacency, n).g
              IN  /\ ~DNeighbors(g, n).ok /\ ~DDegree(g, n).ok
                  /\ \A m \in Labels : ~DWeight(g, n, m).ok /\ ~DWeight(g, m, n).ok
          /\ \A n \in ENodes(EGraph) :
              LET g == ERemoveNode(EGraph, n).g
              IN  /\ ~ENeighbors(g, n).ok /\ ~EDegree(g, n).ok
                  /\ \A m \in Labels : ~EWeight(g, n, m).ok
          /\ \A a, b \in Labels :
              /\ HasEdge(adjacency, a, b) => ~DWeight(DRemoveEdge(adjacency, a, b).g, a, b).ok
              /\ {a, b} \in DOMAIN gedges => ~EWeight(ERemoveEdge(EGraph, a, b).g, b, a).ok)
    /\ [][QueryMade' => UNCHANGED <<adjacency, gnodes, gedges>>]_vars

\* neighbors has been called with a label that is a node of neither variant,
\* on a graph that holds nodes and edges, and the call has failed on both
C15_Witness ==
    /\ gret.op = "neighbors"
    /\ ~gret.dok /\ ~gret.eok
    /\ Labels \ DNodes(adjacency) # {}
    /\ DEdgeCount(adjacency) >= 1 /\ EEdgeCount(EGraph) >= 1

\* C16: in both graph variants add_node(label) of a label that is a node
\* already leaves the whole graph as it was: the nodes, the edges and every
\* weight, the edges at label included.
C16_AddNodeIdempotent ==
    /\ \A label \in DNodes(adjacency) :
        LET g == DAddNode(adjacency, label)
        IN  /\ g = adjacency
            /\ DNodes(g) = DNodes(adjacency)
            /\ DEdges(g) = DEdges(adjacency)
    /\ \A label \in ENodes(EGraph) :
        LET g == EAddNode(EGraph, label)
        IN  /\ g = EGraph
            /\ ENodes(g) = ENodes(EGraph)
            /\ EEdges(g) = EEdges(EGraph)

\* an add_node has been made and every node has an edge starting at it, so
\* the label added was a node with edges before the call
C16_Witness ==
    /\ gret.op = "add_node"
    /\ DNodes(adjacency) # {}
    /\ \A label \in DNodes(adjacency) : DDegree(adjacency, label).value >= 1
    /\ EEdgeCount(EGraph) >= 1

\* C17: after push(item, key) the item is a member and its key lookup returns
\* key. An absent item makes the queue one longer; a present item leaves the
\* length and has its old key replaced, raised or lowered; a key equal to the
\* old one leaves the whole queue state as it was. Every other item keeps its
\* key.
C17_PushSetsKey ==
    \A item \in Items, key \in Keys :
        LET h == Push(Heap, item, key)
        IN  /\ Contains(h, item)
            /\ GetItem(h, item) = key
            /\ DOMAIN h.indices = DOMAIN indices \cup {item}
            /\ ~Contains(Heap, item) => HLen(h) = HLen(Heap) + 1
            /\ Contains(Heap, item) => HLen(h) = HLen(Heap)
            /\ (Contains(Heap, item) /\ GetItem(Heap, item) = key) => h = Heap
            /\ \A x \in DOMAIN indices \ {item} : GetItem(h, x) = GetItem(Heap, x)

\* a push has been made whose item has sifted up to the root of a queue of at
\* least three entries, above an item with a strictly larger key
C17_Witness ==
    /\ hret.op = "push"
    /\ Len(entries) >= 3
    /\ ItemAt(Heap, 0) = hret.item
    /\ GetItem(Heap, hret.item) = hret.key
    /\ \E x \in DOMAIN indices : GetItem(Heap, x) > hret.key

\* C18: on an empty HeapQueue pop and peek raise IndexError and leave the
\* backing array and the index mapping empty, and a push pushed afterwards
\* works as on a new queue; on a non-empty queue peek returns an item with the
\* minimum key; peek and a failed pop change nothing.
C18_EmptyQueueAndPeek ==
    /\ [](/\ HLen(Heap) = 0 =>
              /\ TryPop(Heap) = [ok |-> FALSE, heap |-> EmptyHeap, item |-> None, key |-> None]
              /\ TryPeek(Heap) = [ok |-> FALSE, item |-> None]
              /\ \A item \in Items, key \in Keys :
                  LET h == Push(TryPop(Heap).heap, item, key)
                  IN  /\ h = Push(EmptyHeap, item, key)
                      /\ h.entries = <<<<item, key>>>>
                      /\ TryPeek(h) = [ok |-> TRUE, item |-> item]
                      /\ TryPop(h) = [ok |-> TRUE, heap |-> EmptyHeap,
                                      item |-> item, key |-> key]
          /\ HLen(Heap) > 0 =>
              /\ TryPeek(Heap).ok
              /\ Contains(Heap, TryPeek(Heap).item)
              /\ \A x \in DOMAIN indices : GetItem(Heap, TryPeek(Heap).item) <= GetItem(Heap, x))
    /\ [][(hret'.op = "peek" \/ (hret'.op = "pop" /\ ~hret'.ok))
            => UNCHANGED <<entries, indices>>]_vars
    /\ [][(hret'.op \in {"peek", "pop"} /\ ~hret'.ok) => entries' = <<>> /\ indices' = <<>>]_vars

\* a pop has failed on a queue that is empty, after an earlier call
C18_Witness ==
    /\ hret.op = "pop"
    /\ ~hret.ok
    /\ entries = <<>> /\ indices = <<>>

\* start or one of the requested targets is not a node of the graph
SomeNodeMissing ==
    dj_start \notin DNodes(adjacency) \/ \E t \in dj_req : t \notin DNodes(adjacency)

\* C19: single_source_shortest_paths(start, targets) raises ValueError
\* whenever start or a requested target is not a node, nodes removed earlier
\* included; it does so before a priority queue is built or a node is
\* processed; and the graph is unchanged.
C19_MissingNodeFails ==
    /\ [](SomeNodeMissing =>
            /\ dpc \in {"call", "error"}
            /\ entries = <<>> /\ indices = <<>>
            /\ came_from = <<>> /\ cur = <<>> /\ paths = <<>>)
    /\ [](dpc = "error" => SomeNodeMissing)
    /\ [][(SomeNodeMissing /\ dpc = "call") => dpc' = "error"]_vars
    /\ [][adjacency' = adjacency]_vars

\* the call on the graph after cut_graph with start 3 and targets {0, 4}, both
\* removed earlier, has failed
C19_Witness ==
    /\ dpc = "error"
    /\ adjacency = CutGraph
    /\ dj_start = 3
    /\ dj_req = {0, 4}

\* the call has empty targets and a start that is a node
EmptyTargetsCall == dj_req = {} /\ dj_start \in DNodes(adjacency)

\* C20 as stated: with empty targets and an existing start the call returns
\* the empty mapping without error and without running the algorithm: no
\* priority queue is built and no node is popped.
C20_NoAlgorithmRun ==
    EmptyTargetsCall =>
        /\ dpc # "error"
        /\ dpc = "done" => paths = <<>>
        /\ entries = <<>> /\ indices = <<>>
        /\ cur = <<>>

\* C20, amended: with empty targets and an existing start the call returns the
\* empty mapping without error; _dijkstra is run all the same: the priority
\* queue is built over all nodes with start at key 0, exactly one node, start,
\* is popped, and the loop is left before any edge is relaxed.
C20_EmptyTargets ==
    EmptyTargetsCall =>
        /\ dpc \in {"call", "loop", "done"}
        /\ dpc = "loop" =>
            /\ HLen(Heap) = DNodeCount(adjacency)
            /\ Peek(Heap) = dj_start /\ GetItem(Heap, dj_start) = 0
            /\ cur = <<>>
        /\ dpc = "done" =>
            /\ paths = <<>>
            /\ cur = <<dj_start, 0>>
            /\ came_from = (dj_start :> None)
            /\ HLen(Heap) = DNodeCount(adjacency) - 1
            /\ \A x \in DOMAIN indices : GetItem(Heap, x) = INF

\* the call with empty targets has returned on a graph of three nodes whose
\* start has an edge to another node; the other two nodes are left in the queue
C20_Witness ==
    /\ dpc = "done"
    /\ EmptyTargetsCall
    /\ DNodeCount(adjacency) = 3
    /\ \E n \in DNodes(adjacency) : n # dj_start /\ HasEdge(adjacency, dj_start, n)
    /\ Len(entries) = 2

\* C21: the mapping returned by single_source_shortest_paths has exactly the
\* requested targets as keys; the path of start is [start]; the path of a
\* target that no path reaches from start is the empty list; every other path
\* begins with start, ends with the target, repeats no node, and each
\* consecutive pair of its nodes is an edge of the graph.
C21_PathShape ==
    dpc = "done" =>
        /\ DOMAIN paths = dj_req
        /\ dj_start \in dj_req => paths[dj_start] = <<dj_start>>
        /\ \A t \in dj_req :
            IF AllPaths(adjacency, dj_start, t) = {}
            THEN paths[t] = <<>>
            ELSE /\ Len(paths[t]) >= 1
                 /\ paths[t][1] = dj_start
                 /\ paths[t][Len(paths[t])] = t
                 /\ \A i, j \in 1..Len(paths[t]) : paths[t][i] = paths[t][j] => i = j
                 /\ \A i \in 1..(Len(paths[t]) - 1) :
                        HasEdge(adjacency, paths[t][i], paths[t][i + 1])

\* a returned mapping that holds the start, an unreachable target and a target
\* reached over an edge
C21_Witness ==
    /\ dpc = "done"
    /\ dj_start \in dj_req
    /\ \E t \in dj_req : paths[t] = <<>>
    /\ \E t \in dj_req : Len(paths[t]) >= 2

\* C22: on a disconnected EdgeMapGraph, and on a graph with no edges (a single
\* node or no node at all), min_span_tree raises no error and returns a
\* minimum spanning forest: an acyclic set of node_count minus the number of
\* connected components edges of the graph, of minimal total weight among the
\* spanning forests; on a single node without edges it returns the empty list.
C22_SpanningForest ==
    (~Connected(gnodes, DOMAIN gedges) \/ DOMAIN gedges = {}) =>
        /\ kpc # "error"
        /\ kpc = "done" =>
            LET chosen == {mst[i][1] : i \in 1..Len(mst)}
            IN  /\ \A i \in 1..Len(mst) : mst[i] \in EEdges(EGraph)
                /\ Cardinality(chosen) = Len(mst)
                /\ Acyclic(chosen)
                /\ Len(mst) = ENodeCount(EGraph)
                                - Cardinality(Components(gnodes, DOMAIN gedges))
                /\ TotalWeight(gedges, chosen) =
                     Min({TotalWeight(gedges, T) :
                            T \in SpanningForests(gnodes, DOMAIN gedges)})
                /\ (Cardinality(gnodes) = 1 /\ DOMAIN gedges = {}) => mst = <<>>

\* min_span_tree has failed on a disconnected graph
C22_Witness ==
    /\ kpc = "error"
    /\ ~Connected(gnodes, DOMAIN gedges)
    /\ Cardinality(gnodes) >= 2

\* C23: the list returned by min_span_tree is in the order the edges were
\* selected (the order of the sorted edge list), is non-decreasing in weight,
\* and every element is an edge of the graph with its current weight.
C23_SelectionOrder ==
    kpc = "done" =>
        /\ \A i, j \in 1..Len(mst) : i < j =>
            /\ mst[i][2] <= mst[j][2]
            /\ \E a, b \in 1..Len(sorted_edges) :
                a < b /\ sorted_edges[a] = mst[i] /\ sorted_edges[b] = mst[j]
        /\ \A i \in 1..Len(mst) :
            /\ mst[i][1] \in DOMAIN gedges
            /\ mst[i][2] = gedges[mst[i][1]]

\* a returned list of three edges whose weights differ
C23_Witness ==
    /\ kpc = "done"
    /\ Len(mst) = 3
    /\ mst[1][2] < mst[3][2]

(***************************************************************************)
(* SpecAlgorithms: one call of either algorithm, single_source_shortest_   *)
(* paths on a DirectedGraph or min_span_tree on an EdgeMapGraph.           *)
(***************************************************************************)
AlgInit == DjInit \/ KrInit

AlgNext == DjNext \/ KrNext

SpecAlgorithms == AlgInit /\ [][AlgNext]_vars

\* C24: single_source_shortest_paths and min_span_tree leave the graph they
\* run on unchanged: no step of either call, returning or failing, changes
\* the node set, the edge set or a weight.
C24_GraphUnchanged ==
    [][adjacency' = adjacency /\ gnodes' = gnodes /\ gedges' = gedges]_vars

\* a call of single_source_shortest_paths has returned after relaxing edges
C24_Witness ==
    /\ dpc = "done"
    /\ Cardinality(DOMAIN came_from) >= 3
    /\ DEdgeCount(adjacency) >= 2

\* C25: add_group(items) fails with ValueError when any of the given items is
\* already in the partition, wherever it stands in the list, and then no item
\* is inserted: parents and sizes are exactly as before the call.
C25_AddGroupAllOrNothing ==
    \A n \in 1..(MaxGroupLen + 1) :
    \A items \in [1..n -> PItems] :
        (\E i \in 1..n : items[i] \in DOMAIN parents) =>
            LET r == AddGroup(Part, items)
            IN  /\ ~r.ok
                /\ r.err = "ValueError"
                /\ r.p.parents = parents
                /\ r.p.weights = weights

\* add_group has failed with ValueError on a partition that holds some items
\* and lacks others
C25_Witness ==
    /\ pret = PRet("add_group", "ValueError", FALSE)
    /\ DOMAIN parents # {}
    /\ DOMAIN parents # PItems

\* all items of the partition have the same find root
OneGroup(p) == \A x, y \in DOMAIN p.parents : Root(p, x) = Root(p, y)

\* C26: in every state reached by construction, add_item, add_group, union
\* and find, is_single_group is true if and only if all items of the
\* partition belong to one group.
C26_SingleGroupIff ==
    pfirst # None => (IsSingleGroup(Part, pfirst).value <=> OneGroup(Part))

\* is_single_group has returned false on a partition whose items all have the
\* same root
C26_Witness ==
    /\ pret = PRet("is_single_group", FALSE, TRUE)
    /\ OneGroup(Part)

(***************************************************************************)
(* SpecPartitionDistinct: SpecPartition with add_group called on lists     *)
(* that hold no item twice.                                                *)
(***************************************************************************)
PartAddGroupDistinct ==
    \E items \in InjSeqs(PItems, MaxGroupLen) :
        LET r == AddGroup(Part, items)
        IN  /\ SetPart(r.p)
            /\ pfirst' = IF r.ok THEN FirstAfter(items[1]) ELSE pfirst
            /\ pret' = PRet("add_group", r.err, r.ok)
            /\ UNCHANGED exceptPart

PartNextDistinct ==
    \/ PartAddItem
    \/ PartAddGroupDistinct
    \/ PartFind
    \/ PartFindMissing
    \/ PartUnion
    \/ PartUnionMissing
    \/ PartIsSingleGroup
    \/ PartIsSingleGroupEmpty

SpecPartitionDistinct == PartInit /\ [][PartNextDistinct]_vars

\* C27: when union(a, b) joins two different groups, the root with the
\* strictly smaller recorded size becomes a child of the root with the larger
\* one, the surviving root's recorded size becomes the sum of both sizes, and
\* the attachment changes no parent pointer other than the absorbed root's
\* (compared with the pointers the two finds of union have left).
C27_UnionBySize ==
    \A a, b \in DOMAIN parents :
        LET f1 == Find(Part, a)
            f2 == Find(f1.p, b)
            u == Union(Part, a, b)
            small == IF weights[f1.root] < weights[f2.root] THEN f1.root ELSE f2.root
            large == IF weights[f1.root] < weights[f2.root] THEN f2.root ELSE f1.root
        IN  f1.root # f2.root =>
                /\ weights[small] < weights[large] =>
                    /\ u.parents[small] = large
                    /\ u.parents[large] = large
                    /\ u.weights[large] = weights[small] + weights[large]
                /\ \E gone \in {f1.root, f2.root} :
                    /\ u.parents[gone] \in {f1.root, f2.root} \ {gone}
                    /\ u.weights[u.parents[gone]] = weights[f1.root] + weights[f2.root]
                    /\ \A x \in DOMAIN parents \ {gone} : u.parents[x] = f2.p.parents[x]

\* a union has left groups of different sizes, one of them of three or more
\* items with a path that a find will compress
C27_Witness ==
    /\ pret.op = "union"
    /\ pret.ok
    /\ \E r, s \in DOMAIN parents :
        /\ parents[r] = r /\ parents[s] = s
        /\ weights[s] < weights[r]
        /\ \E x \in DOMAIN parents : parents[x] # r /\ parents[parents[x]] = r /\ x # parents[x]

\* the roots of the partition
Roots(p) == {x \in DOMAIN p.parents : p.parents[x] = x}

\* C28: in every state reached by construction, add_item, add_group on lists
\* of distinct, previously absent items, union and find, the size recorded at
\* each root equals the number of items whose root it is, and the sizes of
\* all roots sum to the number of items of the partition.
C28_RootSizes ==
    /\ \A r \in Roots(Part) :
        weights[r] = Cardinality({x \in DOMAIN parents : Root(Part, x) = r})
    /\ SumOver(Roots(Part), weights) = PLen(Part)

\* a union has left two groups of two items each
C28_Witness ==
    /\ pret.op = "union"
    /\ pret.ok
    /\ \E r, s \in Roots(Part) : r # s /\ weights[r] = 2 /\ weights[s] = 2

\* the item reached from item by following n parent pointers
RECURSIVE ParentAt(_, _, _)
ParentAt(p, item, n) == IF n = 0 THEN item ELSE ParentAt(p, p.parents[item], n - 1)

\* the items joined to item by parent pointers, followed in either direction
TreeOf(p, item) == ReachFrom({item}, {{x, p.parents[x]} : x \in DOMAIN p.parents})

\* C29: the parent pointers contain no cycle other than the self-loops of the
\* roots (every chain of parents ends at a root within as many steps as there
\* are items, so find terminates), and two items are in the same group if and
\* only if find returns the same root for both.
C29_ForestAndGroups ==
    /\ \A x \in DOMAIN parents :
        LET top == ParentAt(Part, x, PLen(Part)) IN parents[top] = top
    /\ \A x, y \in DOMAIN parents :
        LET f1 == Find(Part, x)
            f2 == Find(f1.p, y)
        IN  /\ f1.root = ParentAt(Part, x, PLen(Part))
            /\ (f1.root = f2.root) <=> (y \in TreeOf(Part, x))

\* a union has left two or more groups, one with a path of two parent pointers
C29_Witness ==
    /\ Cardinality(Roots(Part)) >= 2
    /\ \E x \in DOMAIN parents : parents[parents[x]] # parents[x]
    /\ pret.op = "union"

\* the items on the path from item to its root, both included
PathOf(p, item) == {ParentAt(p, item, n) : n \in 0..PLen(p)}

\* C30: find(x) returns the root of x's tree, and afterwards x and every item
\* on the path from x to the root have the root as direct parent; find
\* changes no group, no root's recorded size and no parent pointer of an item
\* off that path.
C30_FindCompresses ==
    \A x \in DOMAIN parents :
        LET f == Find(Part, x)
            root == ParentAt(Part, x, PLen(Part))
        IN  /\ f.root = root
            /\ DOMAIN f.p.parents = DOMAIN parents
            /\ \A y \in PathOf(Part, x) : f.p.parents[y] = root
            /\ \A y \in DOMAIN parents \ PathOf(Part, x) : f.p.parents[y] = parents[y]
            /\ Roots(f.p) = Roots(Part)
            /\ \A r \in Roots(Part) : f.p.weights[r] = weights[r]
            /\ \A y \in DOMAIN parents : TreeOf(f.p, y) = TreeOf(Part, y)

\* find has returned a root under which a path of two parent pointers is left
C30_Witness ==
    /\ pret.op = "find"
    /\ pret.ok
    /\ \E x \in DOMAIN parents :
        /\ parents[x] # x
        /\ parents[parents[x]] # parents[x]
        /\ parents[parents[x]] = pret.res

\* C31: when union(a, b) joins two different groups of equal recorded size,
\* the root of the first argument a survives as the root of the merged group
\* and the root of b becomes its child; from singletons, union(3, 4) makes 3
\* the parent of 4 and union(8, 0) makes 8 the parent of 0.
C31_TieKeepsFirstRoot ==
    /\ \A a, b \in DOMAIN parents :
        LET ra == ParentAt(Part, a, PLen(Part))
            rb == ParentAt(Part, b, PLen(Part))
            u == Union(Part, a, b)
        IN  (ra # rb /\ weights[ra] = weights[rb]) =>
                /\ u.parents[ra] = ra
                /\ u.parents[rb] = ra
                /\ \A x \in DOMAIN parents : ParentAt(u, x, PLen(u)) = ra
                        <=> ParentAt(Part, x, PLen(Part)) \in {ra, rb}
    /\ Union(NewPartition(0..9), 3, 4).parents[4] = 3
    /\ Union(NewPartition(0..9), 3, 4).parents[3] = 3
    /\ Union(NewPartition(0..9), 8, 0).parents[0] = 8
    /\ Union(NewPartition(0..9), 8, 0).parents[8] = 8

\* a union has joined two groups of two items: the root of four holds a child
\* that was the root of two
C31_Witness ==
    /\ pret.op = "union"
    /\ pret.ok
    /\ \E r, s \in DOMAIN parents :
        /\ r # s /\ parents[r] = r /\ parents[s] = r
        /\ weights[r] = 4 /\ weights[s] = 2
        /\ \E y \in DOMAIN parents : y # s /\ parents[y] = s

\* C32: a successful add_group(items) on a list of previously absent items
\* makes all of them one new group separate from every existing group: the
\* first item is the root, every other item has the first item as its direct
\* parent, the root's recorded size is the number of items (of the list, or
\* of the group), and parents and sizes of pre-existing items are unchanged.
C32_AddGroupFlat ==
    \A n \in 1..MaxGroupLen :
    \A items \in [1..n -> PItems] :
        (\A i \in 1..n : items[i] \notin DOMAIN parents) =>
            LET r == AddGroup(Part, items)
            IN  /\ r.ok
                /\ DOMAIN r.p.parents = DOMAIN parents \cup Range(items)
                /\ \A i \in 1..n : r.p.parents[items[i]] = items[1]
                /\ TreeOf(r.p, items[1]) = Range(items)
                /\ r.p.weights[items[1]] \in {n, Cardinality(Range(items))}
                /\ \A x \in DOMAIN parents :
                    r.p.parents[x] = parents[x] /\ r.p.weights[x] = weights[x]

\* add_group has succeeded and left a root of recorded size one with a child
C32_Witness ==
    /\ pret.op = "add_group"
    /\ pret.ok
    /\ \E r, x \in DOMAIN parents :
        r # x /\ parents[r] = r /\ parents[x] = r /\ weights[r] = 1

(***************************************************************************)
(* SpecDijkstraFull: the call of SpecDijkstra with the loop of _dijkstra   *)
(* run until the queue is empty.  paths keeps the result of the moment the *)
(* code leaves the loop (dpc "loop"/"relax" before it, "rest"/"relaxrest"  *)
(* after it).                                                              *)
(***************************************************************************)
\* a pop before the exit test has held: where the code breaks, the result of
\* that moment is recorded and the loop goes on with the node's neighbours
DjPopFull ==
    /\ dpc = "loop"
    /\ HLen(Heap) > 0
    /\ LET r == Pop(Heap)
           left == dj_targets \ {r.item}
           nbrs == DOMAIN adjacency[r.item]
       IN  /\ entries' = r.heap.entries
           /\ indices' = r.heap.indices
           /\ cur' = <<r.item, r.key>>
           /\ dj_targets' = left
           /\ pending' = nbrs
           /\ IF AllFound(left)
              THEN /\ paths' = Result(came_from, dj_req)
                   /\ dpc' = IF nbrs = {} THEN "rest" ELSE "relaxrest"
              ELSE /\ paths' = paths
                   /\ dpc' = IF nbrs = {} THEN "loop" ELSE "relax"
    /\ UNCHANGED <<adjacency, dj_start, dj_req, came_from, exceptDj>>

\* a pop after the exit test has held
DjPopRest ==
    /\ dpc = "rest"
    /\ HLen(Heap) > 0
    /\ LET r == Pop(Heap)
           nbrs == DOMAIN adjacency[r.item]
       IN  /\ entries' = r.heap.entries
           /\ indices' = r.heap.indices
           /\ cur' = <<r.item, r.key>>
           /\ dj_targets' = dj_targets \ {r.item}
           /\ pending' = nbrs
           /\ dpc' = IF nbrs = {} THEN "rest" ELSE "relaxrest"
    /\ UNCHANGED <<adjacency, dj_start, dj_req, came_from, paths, exceptDj>>

\* one pass of the for loop after the exit test has held
DjRelaxRest ==
    /\ dpc = "relaxrest"
    /\ \E nxt_node \in pending :
        LET weight == adjacency[cur[1]][nxt_node]
            nxt_cost == NxtCost(cur[2], weight)
            better == Contains(Heap, nxt_node) /\ nxt_cost < GetItem(Heap, nxt_node)
            frontier == IF better THEN Push(Heap, nxt_node, nxt_cost) ELSE Heap
        IN  /\ entries' = frontier.entries
            /\ indices' = frontier.indices
            /\ came_from' = IF better THEN Put(came_from, nxt_node, cur[1]) ELSE came_from
            /\ pending' = pending \ {nxt_node}
            /\ dpc' = IF pending = {nxt_node} THEN "rest" ELSE "relaxrest"
            /\ adjacency' = RelaxGraph(adjacency, cur[1], nxt_node)
    /\ UNCHANGED <<dj_start, dj_req, dj_targets, cur, paths, exceptDj>>

\* while frontier: the queue is empty, the loop ends
DjExhausted ==
    /\ dpc = "rest"
    /\ HLen(Heap) = 0
    /\ dpc' = "done"
    /\ UNCHANGED <<entries, indices, adjacency, dj_start, dj_req, dj_targets,
                   came_from, cur, pending, paths, exceptDj>>

DjFullNext ==
    \/ DjCallError
    \/ DjCall
    \/ DjPopFull
    \/ DjRelax
    \/ DjPopRest
    \/ DjRelaxRest
    \/ DjExhausted

SpecDijkstraFull == DjInit /\ [][DjFullNext]_vars

\* C33: the early exit of Dijkstra does not change the result: for every
\* graph with non-negative weights, start and targets, the paths returned
\* when the loop stops as soon as all targets have been popped equal the
\* paths built for those targets when the loop has run until the queue is
\* empty.
C33_EarlyExitSameResult ==
    dpc = "done" => paths = Result(came_from, dj_req)

\* the loop has run on after the exit test held and recorded predecessors the
\* early result was built without
C33_Witness ==
    /\ dpc = "done"
    /\ \E t \in dj_req : Len(paths[t]) >= 2
    /\ \E n \in DOMAIN came_from : n \notin dj_req /\ n \notin UNION {Range(paths[t]) : t \in dj_req}

\* the (item, key) lists with pairwise distinct items drawn from S
EntryLists(S) ==
    UNION {{[i \in 1..Len(es) |-> <<es[i], ks[i]>>] : ks \in [1..Len(es) -> Keys]} :
             es \in {s \in InjSeqs(S, Cardinality(S)) : Range(s) = S}}

\* C34: constructing a HeapQueue from any collection of (item, key) entries
\* with pairwise distinct items yields a queue that contains exactly the
\* given items with their given keys and satisfies the min-heap property and
\* index consistency; constructing it with no entries yields an empty queue.
C34_ConstructedHeap ==
    hret.op = "init" =>
        /\ \A es \in EntryLists(DOMAIN indices) :
            LET h == NewHeap(es)
            IN  /\ Range(h.entries) = Range(es)
                /\ Len(h.entries) = Len(es)
                /\ \A i \in 1..(Len(es) - 1) : KeyAt(h, i) >= KeyAt(h, (i - 1) \div 2)
                /\ DOMAIN h.indices = {es[i][1] : i \in 1..Len(es)}
                /\ \A i \in 0..(Len(es) - 1) : h.indices[ItemAt(h, i)] = i
        /\ HLen(NewHeap(<<>>)) = 0 /\ DOMAIN NewHeap(<<>>).indices = {}
        /\ HLen(EmptyHeap) = 0 /\ DOMAIN EmptyHeap.indices = {}

\* a queue constructed from four entries whose smallest key is not unique and
\* whose last entry is larger than the root
C34_Witness ==
    /\ hret.op = "init"
    /\ Len(entries) = 4
    /\ KeyAt(Heap, 1) = KeyAt(Heap, 0)
    /\ KeyAt(Heap, 3) > KeyAt(Heap, 0)

\* the node reached from node by following n predecessors (None once the walk
\* has passed the start)
RECURSIVE CameFromAt(_, _, _)
CameFromAt(cf, node, n) ==
    IF n = 0 \/ node = None THEN node ELSE CameFromAt(cf, cf[node], n - 1)

\* C35: at every step of Dijkstra came_from is a tree rooted at start: start
\* maps to None, every other key maps to a node that is itself a key and has
\* been popped from the queue, and there is no cycle: the backward walk of
\* _construct_path from any recorded node passes the start and ends within
\* as many steps as there are keys, also on graphs with cycles and self-loops.
C35_CameFromTree ==
    dpc \in {"loop", "relax", "done"} =>
        /\ dj_start \in DOMAIN came_from
        /\ came_from[dj_start] = None
        /\ \A n \in DOMAIN came_from \ {dj_start} :
            /\ came_from[n] \in DOMAIN came_from
            /\ came_from[n] # n
            /\ ~Contains(Heap, came_from[n])
        /\ \A n \in DOMAIN came_from :
            /\ CameFromAt(came_from, n, Cardinality(DOMAIN came_from)) = None
            /\ \E k \in 0..(Cardinality(DOMAIN came_from) - 1) :
                   CameFromAt(came_from, n, k) = dj_start

\* a node reached over another node has an edge back to the start: the graph
\* holds a cycle through the recorded tree
C35_Witness ==
    /\ dpc \in {"loop", "relax"}
    /\ \E n \in DOMAIN came_from :
        /\ n # dj_start
        /\ came_from[n] # dj_start
        /\ HasEdge(adjacency, n, dj_start)

\* the number of parent pointers from item to its root
Depth(p, item) ==
    Min({k \in 0..PLen(p) : p.parents[ParentAt(p, item, k)] = ParentAt(p, item, k)})

\* the longest parent chain ending at root r
Height(p, r) ==
    LET ds == {Depth(p, x) : x \in {y \in DOMAIN p.parents : ParentAt(p, y, PLen(p)) = r}}
    IN  CHOOSE d \in ds : \A e \in ds : e <= d

\* C36: in every reachable Partition state, for every root r the recorded
\* size of r is at least 2 to the power of the height of r's tree, also
\* after path compression and add_group.
C36_SizeBoundsHeight ==
    \A r \in Roots(Part) : weights[r] >= 2 ^ Height(Part, r)

\* a root of recorded size one has a child
C36_Witness ==
    \E r \in Roots(Part) : weights[r] = 1 /\ Height(Part, r) = 1

\* C37: on an EdgeMapGraph reached by any sequence of add_edge calls, calls
\* with equal endpoints included, fully consuming neighbors(label) for every
\* node and evaluating min_span_tree complete without raising an error.
C37_SelfLoopTolerated ==
    gnodes = UNION (DOMAIN gedges) =>
        /\ kpc # "error"
        /\ \A label \in gnodes :
            /\ ENeighbors(EGraph, label).ok
            /\ \A r \in GenNbrs(EGraph, label) : r.ok

\* min_span_tree has failed after choosing an edge, on a graph built by
\* add_edge calls of which one had equal endpoints
C37_Witness ==
    /\ kpc = "error"
    /\ gnodes = UNION (DOMAIN gedges)
    /\ Len(mst) >= 1
    /\ \E a \in gnodes : {a} \in DOMAIN gedges

\* the groups of the partition, read from the parent pointers
TreeGroups(p) == {TreeOf(p, x) : x \in DOMAIN p.parents}

\* C38: union(a, b) affects only the groups of a and b: every item outside
\* these two groups stays in its group with the same members, the number of
\* groups decreases by exactly one when a and b were in different groups and
\* by zero otherwise, and the set of items of the partition is unchanged.
C38_UnionFrame ==
    \A a, b \in DOMAIN parents :
        LET u == Union(Part, a, b)
            ga == TreeOf(Part, a)
            gb == TreeOf(Part, b)
        IN  /\ DOMAIN u.parents = DOMAIN parents
            /\ DOMAIN u.weights = DOMAIN weights
            /\ \A x \in DOMAIN parents \ (ga \cup gb) : TreeOf(u, x) = TreeOf(Part, x)
            /\ TreeOf(u, a) = ga \cup gb
            /\ Cardinality(TreeGroups(u)) =
                 Cardinality(TreeGroups(Part)) - (IF ga # gb THEN 1 ELSE 0)

\* a union has left three groups, one of them of two items
C38_Witness ==
    /\ pret.op = "union"
    /\ pret.ok
    /\ Cardinality(TreeGroups(Part)) = 3
    /\ PLen(Part) = 4

(***************************************************************************)
(* SpecMirror: an EdgeMapGraph and a DirectedGraph driven side by side by  *)
(* the same calls without self-loops, every add_edge and remove_edge made  *)
(* in both directions on the DirectedGraph.                                *)
(***************************************************************************)
\* the labels of the mirrored calls: one more than SpecGraph draws from
MirrorLabels == 1..(MaxLabel + 1)

MirrorAddNode ==
    \E label \in MirrorLabels :
        /\ adjacency' = DAddNode(adjacency, label)
        /\ SetEGraph(EAddNode(EGraph, label))
        /\ gret' = GRet("add_node", TRUE, TRUE)
        /\ UNCHANGED exceptGraph

MirrorAddEdge ==
    \E start, end \in MirrorLabels, weight \in Weights :
        /\ start # end
        /\ EEdgeCount(EAddEdge(EGraph, start, end, weight)) <= MaxEdges
        /\ adjacency' = DAddEdge(DAddEdge(adjacency, start, end, weight), end, start, weight)
        /\ SetEGraph(EAddEdge(EGraph, start, end, weight))
        /\ gret' = GRet("add_edge", TRUE, TRUE)
        /\ UNCHANGED exceptGraph

MirrorRemoveNode ==
    \E label \in MirrorLabels :
        LET d == DRemoveNode(adjacency, label)
            e == ERemoveNode(EGraph, label)
        IN  /\ adjacency' = d.g
            /\ SetEGraph(e.g)
            /\ gret' = GRet("remove_node", d.ok, e.ok)
            /\ UNCHANGED exceptGraph

\* remove_edge(start, end) and, unless it raised, remove_edge(end, start)
MirrorRemoveEdge ==
    \E start, end \in MirrorLabels :
        /\ start # end
        /\ LET d1 == DRemoveEdge(adjacency, start, end)
               d2 == IF d1.ok THEN DRemoveEdge(d1.g, end, start) ELSE d1
               e == ERemoveEdge(EGraph, start, end)
           IN  /\ adjacency' = d2.g
               /\ SetEGraph(e.g)
               /\ gret' = GRet("remove_edge", d2.ok, e.ok)
               /\ UNCHANGED exceptGraph

MirrorNext ==
    \/ MirrorAddNode
    \/ MirrorAddEdge
    \/ MirrorRemoveNode
    \/ MirrorRemoveEdge

SpecMirror == GraphInit /\ [][MirrorNext]_vars

\* C39: the two graph variants run side by side stay related: after every
\* sequence of add_node, add_edge, remove_node and remove_edge without
\* self-loops, made in both directions on the DirectedGraph, the two graphs
\* have the same nodes, the same set of neighbors(label) pairs and the same
\* degree(label) for every node, the same weight(a, b) for every pair, and the
\* directed edge_count is twice the undirected one.
C39_MirrorRelated ==
    /\ DNodes(adjacency) = ENodes(EGraph)
    /\ gret.dok = gret.eok
    /\ \A label \in MirrorLabels :
        /\ DNeighbors(adjacency, label).ok = ENeighbors(EGraph, label).ok
        /\ DDegree(adjacency, label) = EDegree(EGraph, label)
        /\ label \in ENodes(EGraph) =>
            \A r \in GenNbrs(EGraph, label) :
                /\ r.ok
                /\ Range(r.value) = DNeighbors(adjacency, label).value
                /\ Len(r.value) = Cardinality(Range(r.value))
    /\ \A a, b \in MirrorLabels : DWeight(adjacency, a, b) = EWeight(EGraph, a, b)
    /\ DEdgeCount(adjacency) = 2 * EEdgeCount(EGraph)

\* a remove_node has taken a node with an edge away and left two edges, one
\* of them with the larger weight
C39_Witness ==
    /\ gret = GRet("remove_node", TRUE, TRUE)
    /\ EEdgeCount(EGraph) = 2
    /\ \E p, q \in DOMAIN gedges : gedges[p] < gedges[q]
    /\ DEdgeCount(adjacency) = 4

====
